---- MODULE Spec2Model ----
(***************************************************************************)
(* Key and document generators of spring/docgen.py, the latency Reservoir  *)
(* of spring/reservoir.py and Config of perfrunner/settings.py as state    *)
(* machines.                                                               *)
(*                                                                         *)
(* SpecLoad   : one driver runs SequentialKey, then UnorderedKey, then     *)
(*              HotKey for the workers 0..workers-1, one yield per step.   *)
(* SpecAccess : HotKey warms up the working set, then a WorkingSetKey is   *)
(*              constructed and next() is called repeatedly.               *)
(* SpecReservoir : update() and dump() calls on one Reservoir.             *)
(* SpecNext   : next() calls on one key generator (NewOrderedKey,          *)
(*              KeyForRemoval, UniformKey, ZipfKey, KeyForCASUpdate).      *)
(* SpecDoc    : next(key) calls on one document generator.                 *)
(* SpecConfig : one Config.parse call on a new Config object.              *)
(* SpecThreads : one or two threads run Reservoir.update on one shared     *)
(*              Reservoir, one statement per step, without a lock.         *)
(* SpecSampler : DurabilityLatency.sample loops over the pools and the     *)
(*              metrics and calls endure, one statement per step.          *)
(***************************************************************************)
EXTENDS Integers, Sequences, FiniteSets, TLC

VARIABLES
    ws,         \* WorkloadSettings: items, workers, working_set
    phase,      \* which generator the driver is iterating
    sid,        \* sequential worker identifier of the running generator
    gen,        \* locals of the running generator: loop cursor and number
    seqKeys,    \* sid -> ids yielded by SequentialKey(sid), in order
    unordKeys,  \* sid -> ids yielded by UnorderedKey(sid), in order
    hotKeys,    \* sid -> ids yielded by HotKey(sid), in order
    wsk,        \* the WorkingSetKey object (working_set, working_set_access)
    last,       \* the last next() call: its arguments and what it returned
    capacity,   \* Reservoir.capacity
    values,     \* Reservoir.values: sequence of (operation, timestamp, value)
    count,      \* Reservoir.count
    csv,        \* rows written by the last Reservoir.dump
    offers,     \* for each slot of values, the count at which it was offered
    ended,      \* how the last Reservoir call ended
    slot,       \* the r the last Reservoir.update drew, -1 when it drew none
    keygen,     \* construction parameters of the next() key generators
    docgen,     \* the document generator: its class and constructor arguments
    rnd,        \* the random source: what it yields and how much was drawn
    dkey,       \* the Key handed to the document generator
    docs,       \* what the calls docgen.next(dkey) returned, in order
    config,     \* the Config object: its ConfigParser and its name
    parsed,     \* the call Config.parse made: its arguments and how it ended
    threads,    \* the threads sharing the Reservoir: where each is in update
    sampler     \* DurabilityLatency.sample: its loops, endure and the pools

vars == <<ws, phase, sid, gen, seqKeys, unordKeys, hotKeys, wsk, last,
          capacity, values, count, csv, offers, ended, slot, keygen,
          docgen, rnd, dkey, docs, config, parsed, threads, sampler>>

keyVars == <<ws, phase, sid, gen, seqKeys, unordKeys, hotKeys, wsk, last>>
resVars == <<capacity, values, count, csv, offers, ended, slot>>
docVars == <<docgen, rnd, dkey, docs>>
cfgVars == <<config, parsed>>
conVars == <<threads, sampler>>
extVars == <<keygen, docgen, rnd, dkey, docs, config, parsed, threads,
             sampler>>

----------------------------------------------------------------------------
(* Bounds of the model *)

MaxItems == 6
MaxWorkers == 3
WorkingSetParts == 4
AccessParts == 2
MaxDeletes == 1
MaxOffset == 3
MaxCapacity == 2
MaxCount == 4
MaxTime == 0
MaxValue == 1

(* Program constants *)

PRIME == 971
MAX_CAPACITY == 100000

----------------------------------------------------------------------------
(* Helpers *)

Min(a, b) == IF a <= b THEN a ELSE b

\* The set of elements of a sequence
Elems(s) == {s[i] : i \in 1..Len(s)}

\* Python int(x * pct / 100) for integers x, pct: the float quotient is
\* truncated toward zero (for these magnitudes it never rounds up to the
\* next integer)
PercentOf(x, pct) ==
    IF x * pct >= 0 THEN (x * pct) \div 100 ELSE -((-(x * pct)) \div 100)

\* Percentages k * 100 / parts, k = 0..parts
Percents(parts) == {(100 * k) \div parts : k \in 0..parts}

NoKey == [kind |-> "none"]

----------------------------------------------------------------------------
(* WorkloadSettings the generators are constructed with: small populations *)
(* with several workers, and a population of PRIME ids with one worker,    *)
(* whose block size is a multiple of PRIME.                                *)

Settings ==
    [items : 0..MaxItems, workers : 1..MaxWorkers,
     working_set : Percents(WorkingSetParts)]
    \cup
    [items : {PRIME}, workers : {1}, working_set : Percents(WorkingSetParts)]

NoKeys(w) == [s \in 0..(w.workers - 1) |-> <<>>]

----------------------------------------------------------------------------
(* SequentialKey.__iter__ : for seq_id in range(sid, items, workers) *)

\* range(0, items, workers): the worker identifier forgotten
SequentialStartFromZero(s, w) == 0

SequentialStart(s, w) == s

SequentialStep(w) == w.workers

SequentialKeyYield ==
    /\ phase = "seq"
    /\ gen.cursor < ws.items
    /\ seqKeys' = [seqKeys EXCEPT ![sid] = Append(@, gen.cursor)]
    /\ gen' = [gen EXCEPT !.cursor = @ + SequentialStep(ws)]
    /\ UNCHANGED <<ws, phase, sid, unordKeys, hotKeys, wsk, last>>
    /\ UNCHANGED resVars
    /\ UNCHANGED extVars

\* The generator is exhausted: the driver takes the next worker, and after
\* the last worker the UnorderedKey generators.
SequentialKeyDone ==
    /\ phase = "seq"
    /\ gen.cursor >= ws.items
    /\ IF sid + 1 < ws.workers
       THEN /\ sid' = sid + 1
            /\ gen' = [cursor |-> SequentialStart(sid + 1, ws), number |-> 0]
            /\ phase' = phase
       ELSE /\ sid' = 0
            /\ gen' = [cursor |-> 0, number |-> 0]
            /\ phase' = "unordered"
    /\ UNCHANGED <<ws, seqKeys, unordKeys, hotKeys, wsk, last>>
    /\ UNCHANGED resVars
    /\ UNCHANGED extVars

----------------------------------------------------------------------------
(* UnorderedKey.__iter__ *)

KeysPerWorker(w) == w.items \div w.workers

\* number = (number + PRIME) % keys_per_workers
\* number = number + self.sid * keys_per_workers
\* the worker's offset not scaled by the block size
UnorderedNumberUnscaled(number, s, kpw) == ((number + PRIME) % kpw) + s

UnorderedNumber(number, s, kpw) == ((number + PRIME) % kpw) + s * kpw

UnorderedKeyYield ==
    /\ phase = "unordered"
    /\ gen.cursor < KeysPerWorker(ws)
    /\ LET number == UnorderedNumber(gen.number, sid, KeysPerWorker(ws))
       IN /\ unordKeys' = [unordKeys EXCEPT ![sid] = Append(@, number)]
          /\ gen' = [cursor |-> gen.cursor + 1, number |-> number]
    /\ UNCHANGED <<ws, phase, sid, seqKeys, hotKeys, wsk, last>>
    /\ UNCHANGED resVars
    /\ UNCHANGED extVars

----------------------------------------------------------------------------
(* HotKey.__iter__ *)

NumHotKeys(w) == PercentOf(w.items, w.working_set)

NumColdItems(w) == w.items - NumHotKeys(w)

HotStart(s, w) == NumColdItems(w) + s

\* seq_id = (seq_id * PRIME) % self.ws.items
HotNumber(seq_id, items) == (seq_id * PRIME) % items

UnorderedKeyDone ==
    /\ phase = "unordered"
    /\ gen.cursor >= KeysPerWorker(ws)
    /\ IF sid + 1 < ws.workers
       THEN /\ sid' = sid + 1
            /\ gen' = [cursor |-> 0, number |-> 0]
            /\ phase' = phase
       ELSE /\ sid' = 0
            /\ gen' = [cursor |-> HotStart(0, ws), number |-> 0]
            /\ phase' = "hot"
    /\ UNCHANGED <<ws, seqKeys, unordKeys, hotKeys, wsk, last>>
    /\ UNCHANGED resVars
    /\ UNCHANGED extVars

HotKeyYield ==
    /\ phase = "hot"
    /\ gen.cursor < ws.items
    /\ hotKeys' = [hotKeys EXCEPT
                     ![sid] = Append(@, HotNumber(gen.cursor, ws.items))]
    /\ gen' = [gen EXCEPT !.cursor = @ + ws.workers]
    /\ UNCHANGED <<ws, phase, sid, seqKeys, unordKeys, wsk, last>>
    /\ UNCHANGED resVars
    /\ UNCHANGED extVars

HotKeyDone ==
    /\ phase = "hot"
    /\ gen.cursor >= ws.items
    /\ IF sid + 1 < ws.workers
       THEN /\ sid' = sid + 1
            /\ gen' = [cursor |-> HotStart(sid + 1, ws), number |-> 0]
            /\ phase' = phase
       ELSE /\ sid' = 0
            /\ gen' = [cursor |-> 0, number |-> 0]
            /\ phase' = "access"
    /\ UNCHANGED <<ws, seqKeys, unordKeys, hotKeys, wsk, last>>
    /\ UNCHANGED resVars
    /\ UNCHANGED extVars

----------------------------------------------------------------------------
(* Specification of the load generators *)

InitReservoirIdle ==
    /\ capacity = 0
    /\ values = <<>>
    /\ count = 0
    /\ csv = <<>>
    /\ offers = <<>>
    /\ ended = "none"
    /\ slot = -1

\* No thread shares the Reservoir
InitThreadsIdle == threads = <<>>

NoSampler == [pc |-> "none"]

\* No DurabilityLatency collector is constructed
InitSamplerIdle == sampler = NoSampler

NoKeyGen == [kind |-> "none"]

NoDocGen == [variant |-> "none"]

NoDocKey == [number |-> -1, string |-> <<>>]

\* Config.__init__: an empty ConfigParser and the name ''
NewConfig ==
    [sections |-> {}, items |-> [p \in {} |-> <<>>],
     defaults |-> [o \in {} |-> <<>>], name |-> <<>>]

NotParsed == [override |-> [kind |-> "none"]]

\* A Config object on which nothing is called
InitConfigIdle ==
    /\ config = NewConfig
    /\ parsed = NotParsed

\* No document generator is constructed
InitDocIdle ==
    /\ docgen = NoDocGen
    /\ rnd = [seed |-> 0, step |-> 0, drawn |-> 0]
    /\ dkey = NoDocKey
    /\ docs = <<>>
    /\ InitConfigIdle

InitLoad ==
    /\ InitThreadsIdle
    /\ InitSamplerIdle
    /\ ws \in Settings
    /\ phase = "seq"
    /\ sid = 0
    /\ gen = [cursor |-> SequentialStart(0, ws), number |-> 0]
    /\ seqKeys = NoKeys(ws)
    /\ unordKeys = NoKeys(ws)
    /\ hotKeys = NoKeys(ws)
    /\ wsk = [kind |-> "none"]
    /\ last = NoKey
    /\ InitReservoirIdle
    /\ keygen = NoKeyGen
    /\ InitDocIdle

NextLoad ==
    \/ SequentialKeyYield
    \/ SequentialKeyDone
    \/ UnorderedKeyYield
    \/ UnorderedKeyDone
    \/ HotKeyYield
    \/ HotKeyDone

SpecLoad == InitLoad /\ [][NextLoad]_vars

----------------------------------------------------------------------------
(* WorkingSetKey *)

\* working_set_access values a WorkingSetKey is constructed with
AccessPercents == Percents(AccessParts)

\* random.randint(0, 100): both ends included
PercentDraws == 0..100

\* if random.randint(0, 100) <= self.working_set_access:  # cache hit
\* a strict comparison in the hit test
IsHitStrict(pct, access) == pct < access

IsHit(pct, access) == pct <= access

\* The outcomes of the hit test over all percentage draws
HitOutcomes(access) == {IsHit(pct, access) : pct \in PercentDraws}

NewWorkingSetKey ==
    /\ phase = "access"
    /\ wsk.kind = "none"
    /\ \E access \in AccessPercents :
         wsk' = [kind |-> "wsk", working_set |-> ws.working_set,
                 working_set_access |-> access]
    /\ UNCHANGED <<ws, phase, sid, gen, seqKeys, unordKeys, hotKeys, last>>
    /\ UNCHANGED resVars
    /\ UNCHANGED extVars

WsNumHotItems(k, curr_items, curr_deletes) ==
    PercentOf(curr_items - curr_deletes, k.working_set)

WsNumColdItems(k, curr_items, curr_deletes) ==
    (curr_items - curr_deletes) - WsNumHotItems(k, curr_items, curr_deletes)

LeftBoundary(k, hit, curr_items, curr_deletes) ==
    IF hit THEN curr_deletes + WsNumColdItems(k, curr_items, curr_deletes)
           ELSE curr_deletes

RightBoundary(k, hit, curr_items, curr_deletes) ==
    IF hit THEN curr_items
           ELSE curr_deletes + WsNumColdItems(k, curr_items, curr_deletes)

\* np.random.random_integers(low, high): any integer of low..high
RandomIntegers(low, high) == low..high

\* number += curr_offset
\* number = (number * PRIME) % num_existing_items
WorkingSetNumber(number, curr_offset, num_existing_items) ==
    ((number + curr_offset) * PRIME) % num_existing_items

\* The numbers next() can return for one outcome of the hit test
WorkingSetNumbers(k, hit, curr_items, curr_deletes, curr_offset) ==
    {WorkingSetNumber(x, curr_offset, curr_items - curr_deletes) :
        x \in RandomIntegers(
                 LeftBoundary(k, hit, curr_items, curr_deletes),
                 RightBoundary(k, hit, curr_items, curr_deletes) - 1)}

\* One call of WorkingSetKey.next. random_integers raises ValueError on an
\* empty interval (low > high), and then no Key is returned.
WorkingSetKeyNext ==
    /\ phase = "access"
    /\ wsk.kind = "wsk"
    /\ last = NoKey
    /\ \E curr_deletes \in 0..MaxDeletes, curr_offset \in 0..MaxOffset,
          hit \in HitOutcomes(wsk.working_set_access) :
         LET curr_items == ws.items
             numbers == WorkingSetNumbers(wsk, hit, curr_items,
                                          curr_deletes, curr_offset)
             call == [curr_items |-> curr_items,
                      curr_deletes |-> curr_deletes,
                      curr_offset |-> curr_offset, hit |-> hit]
         IN IF LeftBoundary(wsk, hit, curr_items, curr_deletes)
                 > RightBoundary(wsk, hit, curr_items, curr_deletes) - 1
            THEN last' = [kind |-> "ValueError", number |-> -1, call |-> call]
            ELSE \E number \in numbers :
                   last' = [kind |-> "key", number |-> number, call |-> call]
    /\ UNCHANGED <<ws, phase, sid, gen, seqKeys, unordKeys, hotKeys, wsk>>
    /\ UNCHANGED resVars
    /\ UNCHANGED extVars

\* The caller is done with the key (or the exception) and loops
KeyConsumed ==
    /\ phase = "access"
    /\ last # NoKey
    /\ last' = NoKey
    /\ UNCHANGED <<ws, phase, sid, gen, seqKeys, unordKeys, hotKeys, wsk>>
    /\ UNCHANGED resVars
    /\ UNCHANGED extVars

InitAccess ==
    /\ InitThreadsIdle
    /\ InitSamplerIdle
    /\ ws \in Settings
    /\ phase = "hot"
    /\ sid = 0
    /\ gen = [cursor |-> HotStart(0, ws), number |-> 0]
    /\ seqKeys = NoKeys(ws)
    /\ unordKeys = NoKeys(ws)
    /\ hotKeys = NoKeys(ws)
    /\ wsk = [kind |-> "none"]
    /\ last = NoKey
    /\ InitReservoirIdle
    /\ keygen = NoKeyGen
    /\ InitDocIdle

NextAccess ==
    \/ HotKeyYield
    \/ HotKeyDone
    \/ NewWorkingSetKey
    \/ WorkingSetKeyNext
    \/ KeyConsumed

SpecAccess == InitAccess /\ [][NextAccess]_vars

----------------------------------------------------------------------------
(* Reservoir *)

\* num_workers values that give the capacities 0..MaxCapacity
NumWorkers ==
    {MAX_CAPACITY \div c : c \in 1..MaxCapacity} \cup {MAX_CAPACITY + 1}

\* self.capacity = self.MAX_CAPACITY // num_workers
ReservoirCapacity(num_workers) == MAX_CAPACITY \div num_workers

Operations == {"get", "set"}

\* Measured values; 0 is the falsy one
Measurements == 0..MaxValue

\* int(time.time() * 10 ** 9)
Timestamps == 0..MaxTime

\* the falsy test forgotten: no value is dropped
IsFalsyNever(value) == FALSE

\* if not value:  # Ignore bad results
IsFalsy(value) == value = 0

\* if len(self.values) < self.capacity:
\* the capacity test off by one, either way
UnderCapacityInclusive(vals, cap) == Len(vals) <= cap

UnderCapacityShort(vals, cap) == Len(vals) + 1 < cap

UnderCapacity(vals, cap) == Len(vals) < cap

\* r = int(self.count * random.random()), random.random() in [0, 1)
RandomSlots(cnt) == 0..(cnt - 1)

\* if r < self.capacity:
Replaces(r, cap) == r < cap

\* the slot after r written
SetSlotNext(vals, r, sample) == [vals EXCEPT ![r + 2] = sample]

\* self.values[r] = ... with Python's 0-based index r
SetSlot(vals, r, sample) == [vals EXCEPT ![r + 1] = sample]

\* self.values.insert(0, ...): the new sample put in front
AddSampleInFront(vals, sample) == <<sample>> \o vals

\* self.values.append(...)
AddSample(vals, sample) == Append(vals, sample)

\* One call update(operation, value), stamped with timestamp
Update(operation, value, timestamp) ==
    /\ count < MaxCount
    /\ IF IsFalsy(value)
       THEN /\ ended' = "dropped"
            /\ slot' = -1
            /\ UNCHANGED <<count, values, offers>>
       ELSE /\ ended' = "sampled"
            /\ count' = count + 1
            /\ LET sample == <<operation, timestamp, value>>
               IN IF UnderCapacity(values, capacity)
                  THEN /\ values' = AddSample(values, sample)
                       /\ offers' = AddSample(offers, count')
                       /\ slot' = -1
                  ELSE \E r \in RandomSlots(count') :
                         /\ slot' = r
                         /\ IF Replaces(r, capacity)
                            THEN /\ values' = SetSlot(values, r, sample)
                                 /\ offers' = SetSlot(offers, r, count')
                            ELSE UNCHANGED <<values, offers>>
    /\ UNCHANGED <<capacity, csv>>
    /\ UNCHANGED keyVars
    /\ UNCHANGED extVars

ReservoirUpdate ==
    \E operation \in Operations, value \in Measurements,
       timestamp \in Timestamps :
       Update(operation, value, timestamp)

\* writer.writerow([operation, timestamp, value]) for every retained sample
DumpRows(vals) == [i \in 1..Len(vals) |-> <<vals[i][1], vals[i][2], vals[i][3]>>]

\* dump that drains the reservoir
DrainedByDump(vals) == <<>>

\* for operation, timestamp, value in self.values: the list is only read
KeptByDump(vals) == vals

ReservoirDump ==
    /\ csv' = DumpRows(values)
    /\ values' = KeptByDump(values)
    /\ offers' = KeptByDump(offers)
    /\ ended' = "dump"
    /\ UNCHANGED <<capacity, count, slot>>
    /\ UNCHANGED keyVars
    /\ UNCHANGED extVars

InitReservoir ==
    /\ InitThreadsIdle
    /\ InitSamplerIdle
    /\ \E num_workers \in NumWorkers : capacity = ReservoirCapacity(num_workers)
    /\ values = <<>>
    /\ count = 0
    /\ csv = <<>>
    /\ offers = <<>>
    /\ ended = "none"
    /\ slot = -1
    /\ ws = [items |-> 0, workers |-> 1, working_set |-> 0]
    /\ phase = "idle"
    /\ sid = 0
    /\ gen = [cursor |-> 0, number |-> 0]
    /\ seqKeys = NoKeys(ws)
    /\ unordKeys = NoKeys(ws)
    /\ hotKeys = NoKeys(ws)
    /\ wsk = [kind |-> "none"]
    /\ last = NoKey
    /\ keygen = NoKeyGen
    /\ InitDocIdle

NextReservoir ==
    \/ ReservoirUpdate
    \/ ReservoirDump

SpecReservoir == InitReservoir /\ [][NextReservoir]_vars

----------------------------------------------------------------------------
(* Properties of the load generators (SpecLoad) *)

RECURSIVE SumYields(_, _)
SumYields(keys, n) ==
    IF n = 0 THEN 0 ELSE Len(keys[n - 1]) + SumYields(keys, n - 1)

\* How many ids the generators of all workers yielded
TotalYields(keys) == SumYields(keys, ws.workers)

\* The ids the generators of all workers yielded
AllYielded(keys) == UNION {Elems(keys[s]) : s \in DOMAIN keys}

Population == 0..(ws.items - 1)

SequentialFinished == phase \in {"unordered", "hot", "access"}

UnorderedFinished == phase \in {"hot", "access"}

HotFinished == phase = "access"

\* C1: once SequentialKey has run for every worker 0..workers-1, the ids
\* yielded are exactly 0..items-1 and each was yielded exactly once (as many
\* yields as ids).
SequentialKeyCoversOnce ==
    SequentialFinished =>
        /\ AllYielded(seqKeys) = Population
        /\ TotalYields(seqKeys) = ws.items

\* C1 witness: several workers finished a population they do not divide
SequentialKeyUnevenDone ==
    /\ SequentialFinished
    /\ ws.workers > 1
    /\ ws.items > ws.workers
    /\ ws.items % ws.workers # 0
    /\ \A s \in DOMAIN seqKeys : Len(seqKeys[s]) > 0

\* C2: once UnorderedKey has run for every worker, the ids yielded are
\* exactly 0..items-1 and each was yielded exactly once.
UnorderedKeyCoversOnce ==
    UnorderedFinished =>
        /\ AllYielded(unordKeys) = Population
        /\ TotalYields(unordKeys) = ws.items

\* C3 as claimed: every worker's UnorderedKey yields the same set of ids as
\* its SequentialKey.
UnorderedSameIdsAsSequential ==
    UnorderedFinished =>
        \A s \in DOMAIN unordKeys : Elems(unordKeys[s]) = Elems(seqKeys[s])

\* The contiguous block of worker s: keys_per_workers ids from s * keys_per_workers
Block(s) ==
    (s * KeysPerWorker(ws))..((s + 1) * KeysPerWorker(ws) - 1)

\* C3 amended: every id UnorderedKey(sid) yields lies in the contiguous block
\* of items // workers ids that starts at sid * (items // workers), and once
\* the generator is exhausted it has yielded items // workers ids.
UnorderedKeyInBlock ==
    /\ \A s \in DOMAIN unordKeys : Elems(unordKeys[s]) \subseteq Block(s)
    /\ UnorderedFinished =>
         \A s \in DOMAIN unordKeys : Len(unordKeys[s]) = KeysPerWorker(ws)

\* C3 witness: a second worker visited a block of several ids that is not
\* its SequentialKey id set
UnorderedBlockDiffers ==
    /\ UnorderedFinished
    /\ ws.workers > 1
    /\ Cardinality(Elems(unordKeys[1])) > 1
    /\ Elems(unordKeys[1]) # Elems(seqKeys[1])

\* C4: once HotKey has run for every worker, the ids yielded are pairwise
\* distinct, each was also yielded by some UnorderedKey worker, and there are
\* floor(items * working_set / 100) of them.
HotKeysDistinctInUnordered ==
    HotFinished =>
        /\ Cardinality(AllYielded(hotKeys)) = TotalYields(hotKeys)
        /\ AllYielded(hotKeys) \subseteq AllYielded(unordKeys)
        /\ TotalYields(hotKeys) = (ws.items * ws.working_set) \div 100

----------------------------------------------------------------------------
(* Properties of WorkingSetKey (SpecAccess) *)

\* The ids HotKey yielded over all workers
HotKeySet == AllYielded(hotKeys)

Returned == last.kind = "key"

WorkingSetKeyIdle == phase = "access" /\ wsk.kind = "wsk" /\ last = NoKey

\* C5: with curr_items = items, curr_deletes = 0 and curr_offset = 0 a key
\* returned with hit=true is a HotKey id, a key returned with hit=false is
\* not, and the ids next() can return with hit=true are the HotKey set.
WorkingSetHitsAreHotKeys ==
    /\ (Returned /\ last.call.curr_deletes = 0 /\ last.call.curr_offset = 0)
         => (last.call.hit <=> last.number \in HotKeySet)
    /\ WorkingSetKeyIdle
         => WorkingSetNumbers(wsk, TRUE, ws.items, 0, 0) = HotKeySet

\* C6: a WorkingSetKey with working_set_access = 0 never returns a key with
\* hit=true.
NoHitWithoutAccess ==
    (Returned /\ wsk.working_set_access = 0) => ~last.call.hit

\* C7: a WorkingSetKey with working_set_access = 100 never returns a key with
\* hit=false, and never even takes the cache-miss branch.
AlwaysHitWithFullAccess ==
    (last # NoKey /\ wsk.working_set_access = 100) => last.call.hit

\* C7 witness: full access returned a hot key of a partly cold population
FullAccessReturnedHit ==
    /\ Returned
    /\ wsk.working_set_access = 100
    /\ last.call.hit
    /\ wsk.working_set < 100
    /\ last.call.curr_deletes > 0

\* C8: for every offset d up to min(hot ids, cold ids), the ids next() can
\* return with hit=true at curr_offset = d contain exactly d ids that are not
\* in the HotKey set.
DriftAddsOffsetIds ==
    WorkingSetKeyIdle =>
        \A d \in 0..Min(MaxOffset,
                        Min(WsNumHotItems(wsk, ws.items, 0),
                            WsNumColdItems(wsk, ws.items, 0))) :
            Cardinality(WorkingSetNumbers(wsk, TRUE, ws.items, 0, d)
                            \ HotKeySet) = d

----------------------------------------------------------------------------
(* Properties of the Reservoir (SpecReservoir) *)

\* C9: after any sequence of update and dump calls the reservoir holds at
\* most capacity samples.
ReservoirWithinCapacity == Len(values) <= capacity

\* C9 witness: a full reservoir that was offered more than it holds and
\* was dumped
ReservoirFullAndDumped ==
    /\ capacity > 0
    /\ Len(values) = capacity
    /\ count > capacity
    /\ csv # <<>>

\* C10: the reservoir holds min(count, capacity) samples; offering more than
\* capacity non-zero observations leaves exactly capacity samples.
ReservoirLengthIsMin == Len(values) = Min(count, capacity)

\* C10 witness: two observations more than the capacity were offered
ReservoirOverOffered ==
    /\ capacity > 1
    /\ count >= capacity + 2
    /\ Len(values) = capacity


\* An update call whose value is zero
ZeroUpdate ==
    \E operation \in Operations, timestamp \in Timestamps :
        Update(operation, 0, timestamp)

\* C11: an update with a zero value returns without sampling and leaves
\* count, values and capacity as they were.
ZeroUpdateChangesNothing ==
    [][ZeroUpdate => (ended' = "dropped"
                      /\ UNCHANGED <<count, values, capacity>>)]_vars

\* C11 witness: a zero value was dropped by a reservoir that holds samples
ZeroDroppedAfterSamples ==
    /\ ended = "dropped"
    /\ count > capacity
    /\ Len(values) > 0

\* Slots i < j of the reservoir
SlotPairs == {p \in (1..Len(offers)) \X (1..Len(offers)) : p[1] < p[2]}

\* C12 as claimed: whenever dump exports, of any two exported samples the
\* one offered earlier comes first.
DumpInOfferOrder ==
    [][ReservoirDump =>
         (Len(csv') = Len(offers)
          /\ \A p \in SlotPairs : offers[p[1]] < offers[p[2]])]_vars

\* C12 amended: dump exports the samples in slot order; of two exported
\* samples the one offered earlier comes first unless the other one replaced
\* a slot of the full reservoir (it was offered after capacity observations).
DumpInSlotOrder ==
    [][ReservoirDump =>
         (Len(csv') = Len(offers)
          /\ \A p \in SlotPairs :
               offers[p[1]] < offers[p[2]] \/ offers[p[1]] > capacity)]_vars

\* C12 witness: a dump exported a reservoir in which a replaced slot holds a
\* later observation than the slot after it
DumpedAfterReplacement ==
    /\ ended = "dump"
    /\ csv = DumpRows(values)
    /\ \E p \in SlotPairs : offers[p[1]] > offers[p[2]]

\* C13: dump leaves capacity, count and values as they were, and a dump
\* that follows a dump exports the same rows.
DumpChangesNothing ==
    [][ReservoirDump =>
         (/\ UNCHANGED <<capacity, count, values>>
          /\ ended = "dump" => csv' = csv)]_vars

\* C13 witness: a full reservoir was dumped
DumpedFullReservoir ==
    /\ ended = "dump"
    /\ count > capacity
    /\ Len(values) > 1
    /\ csv = DumpRows(values)

----------------------------------------------------------------------------
(* Key strings: decimal_fmtr and Key.string. A string is modelled as the   *)
(* sequence of its characters.                                             *)

DigitChars == <<"0", "1", "2", "3", "4", "5", "6", "7", "8", "9">>

HexChars == DigitChars \o <<"a", "b", "c", "d", "e", "f">>

\* The characters key strings are made of
KeyChars == HexChars \o <<"-", "n", "q", "l", "t", "s">>

CharCode(c) == CHOOSE i \in 1..Len(KeyChars) : KeyChars[i] = c

\* The decimal digits of n >= 0, most significant first
RECURSIVE DecimalDigits(_)
DecimalDigits(n) ==
    IF n < 10 THEN <<DigitChars[n + 1]>>
    ELSE DecimalDigits(n \div 10) \o <<DigitChars[(n % 10) + 1]>>

ZeroPad(digits, width) ==
    [i \in 1..(width - Len(digits)) |-> "0"] \o digits

KEY_WIDTH == 12

\* '%012d' % key: zero padded to 12 characters, the sign included
Format012d(key) ==
    IF key < 0
    THEN <<"-">> \o ZeroPad(DecimalDigits(-key), KEY_WIDTH - 1)
    ELSE ZeroPad(DecimalDigits(key), KEY_WIDTH)

\* decimal_fmtr that ignores the prefix
DecimalFmtrNoPrefix(key, prefix) == Format012d(key)

\* decimal_fmtr(key, prefix)
DecimalFmtr(key, prefix) ==
    IF prefix # <<>> THEN prefix \o <<"-">> \o Format012d(key)
    ELSE Format012d(key)

RECURSIVE HashFold(_, _, _)
HashFold(str, i, h) ==
    IF i > Len(str) THEN h
    ELSE HashFold(str, i + 1, (h * 33 + CharCode(str[i])) % 65521)

\* md5(...).hexdigest(): 32 hexadecimal characters that are a function of
\* the string (a stand-in for the digest of hashlib)
Md5Hex(str) ==
    LET h == HashFold(str, 1, 5381)
    IN [i \in 1..32 |-> HexChars[(((h + i) * (2 * i + 1)) % 16) + 1]]

\* Key.string
KeyString(number, prefix, fmtr) ==
    IF fmtr = "hash" THEN Md5Hex(DecimalFmtr(number, prefix))
    ELSE DecimalFmtr(number, prefix)

----------------------------------------------------------------------------
(* The next() generators: NewOrderedKey, KeyForRemoval, UniformKey,        *)
(* ZipfKey, KeyForCASUpdate                                                *)

MaxZipf == 8

Prefixes == {<<>>, <<"n", "1", "q", "l">>, <<"t">>, <<"t", "-", "0">>, <<"1">>}

Formats == {"decimal", "hash"}

\* curr_items / curr_deletes handed to next(): small counters and two
\* larger ones
Counters == (0..MaxItems) \cup {PRIME, 1234567890}

\* np.random.zipf(a): an integer >= 1
ZipfDraws == 1..MaxZipf

KeyOf(number, call) ==
    [kind |-> "key", number |-> number,
     string |-> KeyString(number, keygen.prefix, keygen.fmtr), call |-> call]

Raised(error, call) ==
    [kind |-> error, number |-> -1, string |-> <<>>, call |-> call]

\* NewOrderedKey.next(curr_items)
NewOrderedKeyNext ==
    /\ last = NoKey
    /\ \E curr_items \in Counters :
         last' = KeyOf(curr_items,
                       [gen |-> "NewOrderedKey", curr_items |-> curr_items])
    /\ UNCHANGED <<ws, phase, sid, gen, seqKeys, unordKeys, hotKeys, wsk>>
    /\ UNCHANGED resVars
    /\ UNCHANGED extVars

\* KeyForRemoval.next(curr_deletes)
KeyForRemovalNext ==
    /\ last = NoKey
    /\ \E curr_deletes \in 0..MaxItems :
         last' = KeyOf(curr_deletes,
                       [gen |-> "KeyForRemoval", curr_deletes |-> curr_deletes])
    /\ UNCHANGED <<ws, phase, sid, gen, seqKeys, unordKeys, hotKeys, wsk>>
    /\ UNCHANGED resVars
    /\ UNCHANGED extVars

\* UniformKey.next(curr_items, curr_deletes)
UniformKeyNext ==
    /\ last = NoKey
    /\ \E curr_items \in 0..MaxItems, curr_deletes \in 0..MaxItems :
         LET call == [gen |-> "UniformKey", curr_items |-> curr_items,
                      curr_deletes |-> curr_deletes]
         IN IF curr_deletes > curr_items - 1
            THEN last' = Raised("ValueError", call)
            ELSE \E number \in RandomIntegers(curr_deletes, curr_items - 1) :
                   last' = KeyOf(number, call)
    /\ UNCHANGED <<ws, phase, sid, gen, seqKeys, unordKeys, hotKeys, wsk>>
    /\ UNCHANGED resVars
    /\ UNCHANGED extVars

\* ZipfKey.next without the clamp
ZipfUnclamped(number, curr_items, curr_deletes) == number

\* if number <= curr_deletes: number = curr_items - 1
ZipfClamp(number, curr_items, curr_deletes) ==
    IF number <= curr_deletes THEN curr_items - 1 ELSE number

\* ZipfKey.next(curr_items, curr_deletes)
ZipfKeyNext ==
    /\ last = NoKey
    /\ \E curr_items \in 0..MaxItems, curr_deletes \in 0..MaxItems,
          z \in ZipfDraws :
         last' = KeyOf(ZipfClamp(curr_items - z, curr_items, curr_deletes),
                       [gen |-> "ZipfKey", curr_items |-> curr_items,
                        curr_deletes |-> curr_deletes, z |-> z])
    /\ UNCHANGED <<ws, phase, sid, gen, seqKeys, unordKeys, hotKeys, wsk>>
    /\ UNCHANGED resVars
    /\ UNCHANGED extVars

\* per_worker_items = curr_items // self.n1ql_workers
PerWorkerItems(curr_items, n1ql_workers) == curr_items \div n1ql_workers

\* left_boundary = sid * per_worker_items
CasLeftBoundary(s, per_worker_items) == s * per_worker_items

\* high = right_boundary, the inclusive end not taken off
CasHighInclusive(left_boundary, per_worker_items) ==
    left_boundary + per_worker_items

\* high = right_boundary - 1, right_boundary = left_boundary + per_worker_items
CasHigh(left_boundary, per_worker_items) ==
    left_boundary + per_worker_items - 1

\* KeyForCASUpdate.next(sid, curr_items)
KeyForCASUpdateNext ==
    /\ last = NoKey
    /\ \E s \in 0..(keygen.n1ql_workers - 1), curr_items \in 0..MaxItems :
         LET per_worker_items == PerWorkerItems(curr_items, keygen.n1ql_workers)
             low == CasLeftBoundary(s, per_worker_items)
             high == CasHigh(low, per_worker_items)
             call == [gen |-> "KeyForCASUpdate", sid |-> s,
                      curr_items |-> curr_items]
         IN IF low > high
            THEN last' = Raised("ValueError", call)
            ELSE \E number \in RandomIntegers(low, high) :
                   last' = KeyOf(number, call)
    /\ UNCHANGED <<ws, phase, sid, gen, seqKeys, unordKeys, hotKeys, wsk>>
    /\ UNCHANGED resVars
    /\ UNCHANGED extVars

MaxMutate == 17

\* hex(i)[2:] of an integer i >= 0
RECURSIVE HexDigits(_)
HexDigits(i) ==
    IF i < 16 THEN <<HexChars[i + 1]>>
    ELSE HexDigits(i \div 16) \o <<HexChars[(i % 16) + 1]>>

\* random.randint(a, b): an integer N with a <= N <= b
PyRandInt(a, b) == a..b

\* ws.fts_config: <<>> when there is none, else <<mutate_items>>
FtsConfigs == {<<>>} \cup {<<m>> : m \in {-1, 0, 1, MaxMutate}}

\* FTSKey.__init__
FTSKeyInit(fts_config) ==
    IF fts_config = <<>> THEN 0 ELSE fts_config[1]

\* FTSKey(ws).next()
FTSKeyNext ==
    /\ last = NoKey
    /\ \E fts_config \in FtsConfigs :
         LET mutate_items == FTSKeyInit(fts_config)
             call == [gen |-> "FTSKey", mutate_items |-> mutate_items]
         IN IF PyRandInt(0, mutate_items) = {}
            THEN last' = Raised("ValueError", call)
            ELSE \E i \in PyRandInt(0, mutate_items) :
                   last' = [kind |-> "str", string |-> HexDigits(i),
                            call |-> call]
    /\ UNCHANGED <<ws, phase, sid, gen, seqKeys, unordKeys, hotKeys, wsk>>
    /\ UNCHANGED resVars
    /\ UNCHANGED extVars

InitNext ==
    /\ InitThreadsIdle
    /\ InitSamplerIdle
    /\ keygen \in [kind : {"keygen"}, prefix : Prefixes, fmtr : Formats,
                   n1ql_workers : 1..MaxWorkers]
    /\ ws = [items |-> 0, workers |-> 1, working_set |-> 0]
    /\ phase = "access"
    /\ sid = 0
    /\ gen = [cursor |-> 0, number |-> 0]
    /\ seqKeys = NoKeys(ws)
    /\ unordKeys = NoKeys(ws)
    /\ hotKeys = NoKeys(ws)
    /\ wsk = [kind |-> "none"]
    /\ last = NoKey
    /\ InitReservoirIdle
    /\ InitDocIdle

NextNext ==
    \/ NewOrderedKeyNext
    \/ KeyForRemovalNext
    \/ UniformKeyNext
    \/ ZipfKeyNext
    \/ KeyForCASUpdateNext
    \/ FTSKeyNext
    \/ KeyConsumed

SpecNext == InitNext /\ [][NextNext]_vars

----------------------------------------------------------------------------
(* Properties of the next() generators (SpecNext) *)

ReturnedBy(generator) == last.kind = "key" /\ last.call.gen = generator

\* C17: for curr_items > curr_deletes >= 0 and every Zipf draw, ZipfKey.next
\* returns an id of curr_deletes..curr_items-1.
ZipfKeyInLiveRange ==
    (ReturnedBy("ZipfKey") /\ last.call.curr_items > last.call.curr_deletes)
        => last.number \in last.call.curr_deletes..(last.call.curr_items - 1)

\* C17 witness: a draw that reached below the deleted ids was clamped
ZipfKeyClamped ==
    /\ ReturnedBy("ZipfKey")
    /\ last.call.curr_deletes > 0
    /\ last.call.curr_items > last.call.curr_deletes + 1
    /\ last.call.curr_items - last.call.z < last.call.curr_deletes
    /\ last.number = last.call.curr_items - 1

\* Shard t of a population of n ids split between w workers
Shard(t, n, w) == (t * (n \div w))..((t + 1) * (n \div w) - 1)

\* C18: for curr_items >= n1ql_workers and sid in 0..n1ql_workers-1,
\* KeyForCASUpdate.next returns an id of shard sid, which is an id of
\* 0..curr_items-1 and of no other worker's shard.
CasKeyInOwnShard ==
    (last # NoKey /\ last.call.gen = "KeyForCASUpdate"
       /\ last.call.curr_items >= keygen.n1ql_workers)
        => /\ last.kind = "key"
           /\ last.number \in Shard(last.call.sid, last.call.curr_items,
                                    keygen.n1ql_workers)
           /\ last.number \in 0..(last.call.curr_items - 1)
           /\ \A t \in 0..(keygen.n1ql_workers - 1) :
                t # last.call.sid =>
                  last.number \notin Shard(t, last.call.curr_items,
                                           keygen.n1ql_workers)

\* C18 witness: the last worker drew the last id of its shard of a
\* population the workers do not divide
CasKeyLastOfShard ==
    /\ ReturnedBy("KeyForCASUpdate")
    /\ keygen.n1ql_workers > 1
    /\ last.call.sid = keygen.n1ql_workers - 1
    /\ last.call.curr_items % keygen.n1ql_workers # 0
    /\ last.number + 1 = (last.call.sid + 1)
                           * (last.call.curr_items \div keygen.n1ql_workers)

\* The number a sequence of decimal digits stands for
RECURSIVE ParseDecimal(_)
ParseDecimal(digits) ==
    IF digits = <<>> THEN 0
    ELSE 10 * ParseDecimal(SubSeq(digits, 1, Len(digits) - 1))
           + (CharCode(digits[Len(digits)]) - 1)

IsDigits(str) == \A i \in 1..Len(str) : str[i] \in Elems(DigitChars)

\* C19: with the decimal format the string of a key with number >= 0 is its
\* optional 'prefix-' followed by the 12 digit zero padded decimal of the
\* number, and no other (number, prefix) pair has the same string.
DecimalKeyStringInjective ==
    (last.kind = "key" /\ keygen.fmtr = "decimal" /\ last.number >= 0) =>
        LET str == last.string
            lead == IF keygen.prefix = <<>> THEN 0 ELSE Len(keygen.prefix) + 1
            digits == SubSeq(str, lead + 1, Len(str))
        IN /\ Len(str) = lead + KEY_WIDTH
           /\ IsDigits(digits)
           /\ ParseDecimal(digits) = last.number
           /\ lead > 0 => SubSeq(str, 1, lead) = keygen.prefix \o <<"-">>
           /\ \A n \in Counters, q \in Prefixes :
                (n # last.number \/ q # keygen.prefix)
                    => KeyString(n, q, "decimal") # str

\* C19 witness: NewOrderedKey made a prefixed key beyond the small population
NewPrefixedDecimalKey ==
    /\ ReturnedBy("NewOrderedKey")
    /\ keygen.fmtr = "decimal"
    /\ keygen.prefix = <<"t", "-", "0">>
    /\ last.number = PRIME

----------------------------------------------------------------------------
(* Document generators of spring/docgen.py. A string is the sequence of    *)
(* its characters, a float is an integer number of hundredths, a dict is a *)
(* record. Values built by code outside docgen.py (fastdocgen, the tables  *)
(* of spring.dictionary) are kept as the call that builds them.            *)

MaxSeed == 2
MaxStep == 1
MaxCalls == 2
MaxPadding == 70
MaxKey == 2

\* Python sequence operations

PyIndex(i, n) == IF i < 0 THEN (IF n + i < 0 THEN 0 ELSE n + i) ELSE Min(i, n)

\* s[a:b]
PySlice(s, a, b) ==
    LET lo == PyIndex(a, Len(s))
        hi == PyIndex(b, Len(s))
    IN IF lo >= hi THEN <<>> ELSE SubSeq(s, lo + 1, hi)

\* n * s
PyRepeat(s, n) ==
    IF n <= 0 \/ s = <<>> THEN <<>>
    ELSE [i \in 1..(n * Len(s)) |-> s[((i - 1) % Len(s)) + 1]]

\* s[::-1]
PyReversed(s) == [i \in 1..Len(s) |-> s[Len(s) + 1 - i]]

\* s.find(c)
PyFind(s, c) ==
    IF c \in Elems(s)
    THEN (CHOOSE i \in 1..Len(s) :
            s[i] = c /\ \A j \in 1..(i - 1) : s[j] # c) - 1
    ELSE -1

\* int(s, 16)
RECURSIVE HexValue(_)
HexValue(s) ==
    IF s = <<>> THEN 0
    ELSE 16 * HexValue(SubSeq(s, 1, Len(s) - 1)) + (CharCode(s[Len(s)]) - 1)

\* int(x) of the float num / den, den > 0: truncation toward zero
PyInt(num, den) == IF num >= 0 THEN num \div den ELSE -((-num) \div den)

\* math.ceil of the float num / den, den > 0
PyCeil(num, den) == -((-num) \div den)

\* The random source: draw number k is seed + step * k
Raw(r, k) == r.seed + r.step * (r.drawn + k)

\* random.randint(a, b) as draw k, a <= b
RandInt(r, k, a, b) == a + (Raw(r, k) % (b - a + 1))

\* random.random() as draw k, in thousandths
RandomRandom(r, k) == <<0, 500, 975, 990>>[(Raw(r, k) % 4) + 1]

\* np.random.uniform(low, high) as draw k, in hundredths
RandomUniform(r, k, low, high) == low + (Raw(r, k) % 3) * ((high - low) \div 2)

\* np.random.normal(loc=1.0, scale=0.17) as draw k, in hundredths
RandomNormal(r, k) == 100 + ((Raw(r, k) % 5) - 2) * 17

\* np.random.beta(a=2.2, b=1.0) as draw k, in hundredths
RandomBeta(r, k) == <<100, 80>>[(Raw(r, k) % 2) + 1]

\* String._build_alphabet
BuildAlphabet(key) == Md5Hex(key) \o Md5Hex(PyReversed(key))

\* String._build_string; length is in hundredths
BuildString(alphabet, length) ==
    LET length_int == PyInt(length, 100)
        num_slices == PyCeil(length, 100 * 64)
        body == PyRepeat(alphabet, num_slices)
    IN PySlice(body, 0, length_int)

\* Document field builders
BuildName(alphabet) ==
    PySlice(alphabet, 0, 6) \o <<" ">> \o PySlice(alphabet, 6, 12)

MailAddress(name, domain) == name \o <<"@">> \o domain \o <<".", "c", "o", "m">>

BuildEmail(alphabet) ==
    MailAddress(PySlice(alphabet, 12, 18), PySlice(alphabet, 18, 24))

\* Document._build_alt_email, draws k and k + 1
BuildAltEmail(alphabet, r, k) ==
    LET name == RandInt(r, k, 1, 9)
        domain == RandInt(r, k + 1, 12, 18)
    IN MailAddress(PySlice(alphabet, name, name + 6),
                   PySlice(alphabet, domain, domain + 6))

BuildCity(alphabet) == PySlice(alphabet, 24, 30)

BuildRealm(alphabet) == PySlice(alphabet, 30, 36)

BuildCountry(alphabet) == PySlice(alphabet, 42, 48)

BuildCounty(alphabet) == PySlice(alphabet, 48, 54)

BuildStreet(alphabet) == PySlice(alphabet, 54, 62)

\* max(0.1, int(alphabet[36:40], 16) / 100), in hundredths
BuildCoins(alphabet) ==
    LET coins == HexValue(PySlice(alphabet, 36, 40))
    IN IF coins < 10 THEN 10 ELSE coins

\* tuple(time.gmtime(396 * 24 * 3600 * m)) for m in 0..11
GmTime(m) ==
    << <<1970, 1, 1, 0, 0, 0, 3, 1, 0>>,   <<1971, 2, 1, 0, 0, 0, 0, 32, 0>>,
       <<1972, 3, 3, 0, 0, 0, 4, 63, 0>>,  <<1973, 4, 3, 0, 0, 0, 1, 93, 0>>,
       <<1974, 5, 4, 0, 0, 0, 5, 124, 0>>, <<1975, 6, 4, 0, 0, 0, 2, 155, 0>>,
       <<1976, 7, 4, 0, 0, 0, 6, 186, 0>>, <<1977, 8, 4, 0, 0, 0, 3, 216, 0>>,
       <<1978, 9, 4, 0, 0, 0, 0, 247, 0>>, <<1979, 10, 5, 0, 0, 0, 4, 278, 0>>,
       <<1980, 11, 4, 0, 0, 0, 1, 309, 0>>,
       <<1981, 12, 5, 0, 0, 0, 5, 339, 0>> >>[m + 1]

BuildGmtime(alphabet) == GmTime(HexValue(<<alphabet[64]>>) % 12)

BuildYear(alphabet) == 1985 + HexValue(<<alphabet[63]>>)

\* STATES[alphabet.find('7') % NUM_STATES][0]
BuildState(alphabet) ==
    [table |-> "STATES", find |-> PyFind(alphabet, "7"), column |-> 0]

\* STATES[alphabet.find('8') % NUM_STATES][1]
BuildFullState(alphabet) ==
    [table |-> "STATES", find |-> PyFind(alphabet, "8"), column |-> 1]

BuildCategory(alphabet) == HexValue(<<alphabet[42]>>) % 3

\* build_achievements(alphabet) or [0]
BuildAchievements(alphabet) == [call |-> "build_achievements", arg |-> alphabet]

----------------------------------------------------------------------------
(* _size of the document classes; sizes are in hundredths *)

SIZE_VARIATION == 25

\* The class attribute OVERHEAD as each class inherits or overrides it
OVERHEAD(variant) ==
    CASE variant \in {"Document", "GSIMultiIndexDocument",
                      "SmallPlasmaDocument", "SequentialPlasmaDocument",
                      "LargeItemPlasmaDocument",
                      "VaryingItemSizePlasmaDocument"} -> 205
      [] variant \in {"NestedDocument", "LargeDocument"} -> 450
      [] variant \in {"ReverseLookupDocument", "JoinedDocument",
                      "RefDocument"} -> 420
      [] variant = "ReverseRangeLookupDocument" -> 480
      [] variant = "ExtReverseLookupDocument" -> 500
      [] variant = "ArrayIndexingDocument" -> 530
      [] variant = "ProfileDocument" -> 390
      [] variant \in {"ImportExportDocument",
                      "ImportExportDocumentNested"} -> 1022
      [] variant = "ImportExportDocumentArray" -> 0

\* Document._size, the jitter is draw k
DocumentSize(g, r, k) ==
    IF g.avg_size <= OVERHEAD(g.variant)
    THEN [size |-> 0, used |-> 0]
    ELSE [size |-> RandomUniform(r, k, 100 - SIZE_VARIATION,
                                 100 + SIZE_VARIATION)
                     * (g.avg_size - OVERHEAD(g.variant)),
          used |-> 1]

\* NestedDocument._size, draws k and k + 1
NestedDocumentSize(g, r, k) ==
    IF g.avg_size <= OVERHEAD(g.variant)
    THEN [size |-> 0, used |-> 0]
    ELSE IF RandomRandom(r, k) < 975
         THEN [size |-> (g.avg_size - OVERHEAD(g.variant))
                          * RandomNormal(r, k + 1),
               used |-> 2]
         ELSE [size |-> (2048 * 100 * 100) \div RandomBeta(r, k + 1),
               used |-> 2]

\* ReverseLookupDocument._size that forgets the overhead
ReverseLookupDocumentSizeWhole(g, r, k) ==
    [size |-> 100 * g.avg_size, used |-> 0]

\* ReverseLookupDocument._size
ReverseLookupDocumentSize(g, r, k) ==
    [size |-> 100 * (g.avg_size - OVERHEAD(g.variant)), used |-> 0]

\* self._size() as the class of self resolves it
Size(g, r, k) ==
    CASE g.variant \in {"Document", "GSIMultiIndexDocument",
                        "LargeItemPlasmaDocument",
                        "VaryingItemSizePlasmaDocument"}
           -> DocumentSize(g, r, k)
      [] g.variant \in {"NestedDocument", "LargeDocument"}
           -> NestedDocumentSize(g, r, k)
      [] OTHER -> ReverseLookupDocumentSize(g, r, k)

----------------------------------------------------------------------------
(* Document.next and NestedDocument.next, which LargeDocument.next calls  *)
(* too. Each takes the generator g, the key, the random source r and the   *)
(* number k0 of draws made before it, and gives the document and the       *)
(* number of draws it used.                                                *)

\* Document.next
DocumentDoc(g, key, r, k0) ==
    LET alphabet == BuildAlphabet(key.string)
        size == Size(g, r, k0 + 1)
        k == k0 + size.used
    IN [doc |-> [name |-> BuildName(alphabet),
                 email |-> BuildEmail(alphabet),
                 alt_email |-> BuildAltEmail(alphabet, r, k + 1),
                 city |-> BuildCity(alphabet),
                 realm |-> BuildRealm(alphabet),
                 coins |-> BuildCoins(alphabet),
                 category |-> BuildCategory(alphabet),
                 achievements |-> BuildAchievements(alphabet),
                 body |-> BuildString(alphabet, size.size)],
        used |-> size.used + 2]

\* NestedDocument.next
NestedDocumentDoc(g, key, r, k0) ==
    LET alphabet == BuildAlphabet(key.string)
        size == Size(g, r, k0 + 1)
        k == k0 + size.used
    IN [doc |-> [name |-> [f |-> [f |-> [f |-> BuildName(alphabet)]]],
                 email |-> [f |-> [f |-> BuildEmail(alphabet)]],
                 alt_email |->
                     [f |-> [f |-> BuildAltEmail(alphabet, r, k + 1)]],
                 street |-> [f |-> [f |-> BuildStreet(alphabet)]],
                 city |-> [f |-> [f |-> BuildCity(alphabet)]],
                 county |-> [f |-> [f |-> BuildCounty(alphabet)]],
                 state |-> [f |-> BuildState(alphabet)],
                 full_state |-> [f |-> BuildFullState(alphabet)],
                 country |-> [f |-> BuildCountry(alphabet)],
                 realm |-> [f |-> BuildRealm(alphabet)],
                 coins |-> [f |-> BuildCoins(alphabet)],
                 category |-> BuildCategory(alphabet),
                 achievements |-> BuildAchievements(alphabet),
                 gmtime |-> BuildGmtime(alphabet),
                 year |-> BuildYear(alphabet),
                 body |-> BuildString(alphabet, size.size)],
        used |-> size.used + 2]

----------------------------------------------------------------------------
(* ReverseLookupDocument and the classes derived from it *)

ARRAY_CAP == 100
ARRAY_SIZE == 10

N1QL == <<"n", "1", "q", "l">>

\* self.is_random = prefix != 'n1ql'
IsRandom(g) == g.prefix # N1QL

\* An exception leaves next(); used draws were made before it
Raises(error, used) == [doc |-> [raised |-> error], used |-> used]

\* str(n)
PyStr(n) == IF n < 0 THEN <<"-">> \o DecimalDigits(-n) ELSE DecimalDigits(n)

\* '%12s' % n
Format12s(n) == [i \in 1..(12 - Len(PyStr(n))) |-> " "] \o PyStr(n)

\* s.replace('_', '')
RECURSIVE WithoutUnderscores(_)
WithoutUnderscores(str) ==
    IF str = <<>> THEN <<>>
    ELSE (IF Head(str) = "_" THEN <<>> ELSE <<Head(str)>>)
           \o WithoutUnderscores(Tail(str))

\* ReverseLookupDocument.build_email, draws k and k + 1 when random
BuildEmailByMode(g, alphabet, r, k) ==
    IF IsRandom(g)
    THEN [value |-> BuildAltEmail(alphabet, r, k), used |-> 2]
    ELSE [value |-> BuildEmail(alphabet), used |-> 0]

\* ReverseLookupDocument._build_capped, draw k when random
ReverseLookupBuildCapped(g, alphabet, seq_id, num_unique, r, k) ==
    IF IsRandom(g)
    THEN LET offset == RandInt(r, k, 1, 9)
         IN [value |-> PySlice(alphabet, offset, offset + 6), used |-> 1]
    ELSE LET index == seq_id \div num_unique
         IN [value |-> g.prefix \o <<"_">> \o PyStr(num_unique) \o <<"_">>
                         \o PyStr(index),
             used |-> 0]

\* ReverseRangeLookupDocument._build_capped
ReverseRangeBuildCapped(g, alphabet, seq_id, num_unique, r, k) ==
    IF IsRandom(g)
    THEN LET offset == RandInt(r, k, 1, 9)
         IN [value |-> PySlice(alphabet, offset, offset + 6), used |-> 1]
    ELSE LET index == seq_id \div num_unique
         IN [value |-> g.prefix \o <<"_">> \o PyStr(num_unique) \o <<"_">>
                         \o Format12s(index),
             used |-> 0]

\* ProfileDocument._build_capped
ProfileBuildCapped(g, alphabet, seq_id, num_unique, r, k) ==
    LET capped == ReverseLookupBuildCapped(g, alphabet, seq_id, num_unique,
                                           r, k)
    IN [value |-> WithoutUnderscores(capped.value), used |-> capped.used]

\* self._build_capped as the class of self resolves it
BuildCapped(g, alphabet, seq_id, num_unique, r, k) ==
    CASE g.variant = "ReverseRangeLookupDocument"
           -> ReverseRangeBuildCapped(g, alphabet, seq_id, num_unique, r, k)
      [] g.variant = "ProfileDocument"
           -> ProfileBuildCapped(g, alphabet, seq_id, num_unique, r, k)
      [] OTHER
           -> ReverseLookupBuildCapped(g, alphabet, seq_id, num_unique, r, k)

\* The offsets of the four references of _build_topics / _build_categories
RefOffsets == <<11, 19, 23, 29>>

\* ExtReverseLookupDocument._build_topics with the modulus left out
ExtBuildTopicsUnbounded(g, seq_id) ==
    [i \in 1..4 |-> DecimalFmtr(seq_id + RefOffsets[i], g.prefix)]

\* ExtReverseLookupDocument._build_topics, num_docs # 0
ExtBuildTopics(g, seq_id) ==
    [i \in 1..4 |-> DecimalFmtr((seq_id + RefOffsets[i]) % g.num_docs,
                                g.prefix)]

\* self._build_topics as the class of self resolves it
BuildTopics(g, seq_id) ==
    IF g.variant = "ExtReverseLookupDocument"
    THEN ExtBuildTopics(g, seq_id)
    ELSE <<>>

\* _build_topics divides by num_docs
TopicsRaise(g) == g.variant = "ExtReverseLookupDocument" /\ g.num_docs = 0

\* JoinedDocument._build_owner, num_docs // 4 # 0
BuildOwner(g, seq_id) == DecimalFmtr(seq_id % (g.num_docs \div 4), g.prefix)

\* JoinedDocument._build_title
BuildTitle(alphabet) == PySlice(alphabet, 0, 32)

\* JoinedDocument._build_categories, num_categories # 0
BuildCategories(g, seq_id) ==
    [i \in 1..4 |-> DecimalFmtr((seq_id + RefOffsets[i]) % g.num_categories,
                                g.prefix)]

\* JoinedDocument._build_user, num_docs # 0
BuildUser(g, seq_id, idx) ==
    DecimalFmtr((seq_id + idx + 537) % g.num_docs, g.prefix)

\* JoinedDocument._build_replies: idx in range(num_replies)
BuildReplies(g, seq_id) ==
    [i \in 1..g.num_replies |-> [user |-> BuildUser(g, seq_id, i - 1)]]

\* RefDocument._build_ref_name
BuildRefName(g, seq_id) == DecimalFmtr(seq_id, g.prefix)

\* [offset + i for i in range(n)]
ArrayFrom(offset, n) == [i \in 1..n |-> offset + i - 1]

\* _build_achievements1 without the shift by the total number of documents
BuildAchievements1Unshifted(g, seq_id, r, k) ==
    IF IsRandom(g)
    THEN [value |-> ArrayFrom(2 * seq_id * g.array_size
                                + RandInt(r, k, 1, g.array_size),
                              g.array_size),
          used |-> 1]
    ELSE [value |-> ArrayFrom(seq_id * g.array_size, g.array_size),
          used |-> 0]

\* ArrayIndexingDocument._build_achievements1, draw k when random,
\* array_size >= 1 then
BuildAchievements1(g, seq_id, r, k) ==
    IF IsRandom(g)
    THEN [value |-> ArrayFrom(g.num_docs * g.array_size
                                + 2 * seq_id * g.array_size
                                + RandInt(r, k, 1, g.array_size),
                              g.array_size),
          used |-> 1]
    ELSE [value |-> ArrayFrom(seq_id * g.array_size, g.array_size),
          used |-> 0]

\* ArrayIndexingDocument._build_achievements2, draw k when random
BuildAchievements2(g, seq_id, r, k) ==
    IF IsRandom(g)
    THEN [value |-> ArrayFrom(g.num_docs * ARRAY_SIZE
                                + ((2 * seq_id) \div ARRAY_CAP) * ARRAY_SIZE
                                + RandInt(r, k, 1, ARRAY_SIZE),
                              ARRAY_SIZE),
          used |-> 1]
    ELSE [value |-> ArrayFrom((seq_id \div ARRAY_CAP) * ARRAY_SIZE,
                              ARRAY_SIZE),
          used |-> 0]

\* ProfileDocument._build_zip, draw k when random
BuildZip(g, seq_id, r, k) ==
    IF IsRandom(g)
    THEN [value |-> PyStr(RandInt(r, k, 70000, 90000)), used |-> 1]
    ELSE [value |-> PyStr(70000 + (seq_id % 20000)), used |-> 0]

\* ProfileDocument._build_long_street, draws k and k + 1 when random;
\* suffix is STREET_SUFFIX[idx] with the idx the code computes
BuildLongStreet(g, alphabet, seq_id, capped_small, capped_large, r, k) ==
    IF IsRandom(g)
    THEN [value |-> [num |-> RandInt(r, k, 0, 1000),
                     capped_small |-> capped_small,
                     capped_large |-> capped_large,
                     suffix |-> [table |-> "STREET_SUFFIX",
                                 randint |-> Raw(r, k + 1)]],
          used |-> 2]
    ELSE [value |-> [num |-> seq_id % 5000,
                     capped_small |-> capped_small,
                     capped_large |-> capped_large,
                     suffix |-> [table |-> "STREET_SUFFIX",
                                 find |-> PyFind(alphabet, "7")]],
          used |-> 0]

----------------------------------------------------------------------------
(* ImportExportDocument and ImportExportDocumentNested: every field is     *)
(* its builder's value times random.randint(0, cap), one draw per field    *)

\* str * random.randint(0, cap) and tuple * random.randint(0, cap), draw k
TimesSeq(value, r, k, cap) == PyRepeat(value, RandInt(r, k, 0, cap))

\* number * random.randint(0, cap), draw k
TimesNum(value, r, k, cap) == value * RandInt(r, k, 0, cap)

\* STATES[...] * random.randint(0, cap), draw k
TimesEntry(value, r, k, cap) ==
    [repeat |-> value, times |-> RandInt(r, k, 0, cap)]

\* The caps of ImportExportDocument.next
ImportExportCaps ==
    [name |-> 5, email |-> 5, alt_email |-> 5, street |-> 9, city |-> 9,
     county |-> 5, state |-> 5, full_state |-> 5, country |-> 5, realm |-> 9,
     alt_street |-> 9, alt_city |-> 9, alt_county |-> 5, alt_state |-> 5,
     alt_full_state |-> 5, alt_country |-> 5, alt_realm |-> 9, coins |-> 999,
     category |-> 5, gmtime |-> 9, year |-> 5, capped_small |-> 5,
     alt_capped_small |-> 5, num_unique |-> 100]

\* The caps of ImportExportDocumentNested.next
ImportExportNestedCaps ==
    [name |-> 3, email |-> 3, alt_email |-> 3, street |-> 3, city |-> 3,
     county |-> 3, state |-> 3, full_state |-> 3, country |-> 3, realm |-> 3,
     alt_street |-> 3, alt_city |-> 3, alt_county |-> 3, alt_state |-> 3,
     alt_full_state |-> 2, alt_country |-> 2, alt_realm |-> 3, coins |-> 99,
     category |-> 3, gmtime |-> 2, year |-> 2, capped_small |-> 2,
     alt_capped_small |-> 2, num_unique |-> 10]

\* The values of the fields of ImportExportDocument.next and of
\* ImportExportDocumentNested.next, in the order the dict evaluates them
ImportExportFields(g, key, r, k0, caps) ==
    LET alphabet == BuildAlphabet(key.string)
        size == Size(g, r, k0 + 1)
        email == BuildEmailByMode(g, alphabet, r, k0 + size.used + 2)
        k == k0 + size.used + email.used
        capped_small == BuildCapped(g, alphabet, key.number, caps.num_unique,
                                    r, k + 24)
        kc == k + capped_small.used
        alt_capped_small == BuildCapped(g, alphabet, key.number,
                                        caps.num_unique, r, kc + 25)
    IN [doc |->
          [name |-> TimesSeq(BuildName(alphabet), r, k0 + size.used + 1,
                             caps.name),
           email |-> TimesSeq(email.value, r, k + 2, caps.email),
           alt_email |-> TimesSeq(BuildAltEmail(alphabet, r, k + 3), r, k + 5,
                                  caps.alt_email),
           street |-> TimesSeq(BuildStreet(alphabet), r, k + 6, caps.street),
           city |-> TimesSeq(BuildCity(alphabet), r, k + 7, caps.city),
           county |-> TimesSeq(BuildCounty(alphabet), r, k + 8, caps.county),
           state |-> TimesEntry(BuildState(alphabet), r, k + 9, caps.state),
           full_state |-> TimesEntry(BuildFullState(alphabet), r, k + 10,
                                     caps.full_state),
           country |-> TimesSeq(BuildCountry(alphabet), r, k + 11,
                                caps.country),
           realm |-> TimesSeq(BuildRealm(alphabet), r, k + 12, caps.realm),
           alt_street |-> TimesSeq(BuildStreet(alphabet), r, k + 13,
                                   caps.alt_street),
           alt_city |-> TimesSeq(BuildCity(alphabet), r, k + 14,
                                 caps.alt_city),
           alt_county |-> TimesSeq(BuildCounty(alphabet), r, k + 15,
                                   caps.alt_county),
           alt_state |-> TimesEntry(BuildState(alphabet), r, k + 16,
                                    caps.alt_state),
           alt_full_state |-> TimesEntry(BuildFullState(alphabet), r, k + 17,
                                         caps.alt_full_state),
           alt_country |-> TimesSeq(BuildCountry(alphabet), r, k + 18,
                                    caps.alt_country),
           alt_realm |-> TimesSeq(BuildRealm(alphabet), r, k + 19,
                                  caps.alt_realm),
           coins |-> TimesNum(BuildCoins(alphabet), r, k + 20, caps.coins),
           category |-> TimesNum(BuildCategory(alphabet), r, k + 21,
                                 caps.category),
           achievements |-> BuildAchievements(alphabet),
           gmtime |-> TimesSeq(BuildGmtime(alphabet), r, k + 22, caps.gmtime),
           year |-> TimesNum(BuildYear(alphabet), r, k + 23, caps.year),
           body |-> BuildString(alphabet, size.size),
           capped_small |-> TimesSeq(capped_small.value, r, kc + 24,
                                     caps.capped_small),
           alt_capped_small |-> TimesSeq(alt_capped_small.value, r,
                                         kc + alt_capped_small.used + 25,
                                         caps.alt_capped_small)],
        used |-> size.used + email.used + capped_small.used
                   + alt_capped_small.used + 25]

\* {'a': {'b': {'c': {'d': value}}}}
Nest4(a, b, c, d, value) == a :> (b :> (c :> (d :> value)))

----------------------------------------------------------------------------
(* ImportExportDocumentArray. Each field is a value and the number "at" of *)
(* the last draw made when it is built.                                    *)

Drawn(value, at) == [value |-> value, at |-> at]

\* sorted(random.sample(range(l), num)) as draw k, l >= num >= 2: num
\* distinct indexes below l, ascending
RandomSample(l, num, r, k) ==
    LET stride == 1 + (Raw(r, k) % ((l - 1) \div (num - 1)))
        start == Raw(r, k) % (l - (num - 1) * stride)
    IN [i \in 1..num |-> start + (i - 1) * stride]

\* ImportExportDocumentArray._random_array; at is the last draw made
\* before it, the sample is draw at + 1
RandomArray(value, num, r, at) ==
    IF value = <<>> THEN Drawn(<<>>, at)
    ELSE IF Len(value) < num THEN Drawn([i \in 1..5 |-> value], at)
    ELSE LET scope == RandomSample(Len(value), num, r, at + 1)
         IN Drawn([i \in 1..num |->
                     PySlice(value, IF i = 1 THEN 0 ELSE scope[i - 1],
                             (i - 1) + scope[i])],
                  at + 1)

\* _random_array of a STATES entry repeated: its characters are not known
\* here, the array is kept as the call and the sample is drawn unless the
\* string is empty
RandomArrayOfEntry(value, num, r, at) ==
    IF value.times = 0 THEN Drawn(<<>>, at)
    ELSE Drawn([call |-> "_random_array", arg |-> value, num |-> num,
                sample |-> Raw(r, at + 1)], at + 1)

----------------------------------------------------------------------------
(* PlasmaDocument *)

\* PlasmaDocument.build_item(alphabet, size, prefix), draw k,
\* size - len(prefix) >= 1
BuildItem(alphabet, size, prefix, r, k) ==
    LET length == size - Len(prefix)
        num_slices == PyCeil(length, 64)
        body == PyRepeat(alphabet, num_slices)
        num == RandInt(r, k, 1, length)
        item == PySlice(body, num, length) \o PySlice(body, 0, num)
    IN IF prefix # <<>> THEN prefix \o <<"-">> \o item ELSE item

----------------------------------------------------------------------------
(* SpecDoc: one document generator is constructed and next(key) is called  *)
(* on it with one key, MaxCalls times. In an action g is the generator, r  *)
(* the random source and k0 the number of draws made before the call.      *)
(* SmallPlasmaDocument and SequentialPlasmaDocument, which have neither a  *)
(* body nor a prefix, are not modelled.                                    *)

MaxDocs == 8
MaxCategories == 2
MaxReplies == 2
MaxArray == 2

DocPrefixes == {N1QL, <<"t">>}

\* avg_size: below, at and above the OVERHEAD of the class (String has none)
AvgSizes(variant) ==
    LET base == IF variant = "String" THEN 0 ELSE OVERHEAD(variant)
    IN {base - MaxPadding, base - 1, base, base + 1, base + MaxPadding}

ItemSizes == {0, 1, MaxPadding}

\* The generators: each class with its constructor arguments
DocGens ==
    UNION {
      UNION {{[variant |-> v, avg_size |-> a] : a \in AvgSizes(v)} :
               v \in {"String", "Document", "NestedDocument",
                      "LargeDocument", "GSIMultiIndexDocument"}},
      {[variant |-> "LargeItemPlasmaDocument", avg_size |-> a,
        item_size |-> i] :
         a \in AvgSizes("LargeItemPlasmaDocument"), i \in ItemSizes},
      {[variant |-> "VaryingItemSizePlasmaDocument", avg_size |-> a,
        size_variation_min |-> m[1], size_variation_max |-> m[2]] :
         a \in AvgSizes("VaryingItemSizePlasmaDocument"),
         m \in {<<0, 1>>, <<1, MaxPadding>>, <<2, 1>>}},
      UNION {{[variant |-> v, avg_size |-> a, prefix |-> p] :
                 a \in AvgSizes(v), p \in DocPrefixes} :
               v \in {"ReverseLookupDocument", "ProfileDocument",
                      "ImportExportDocument", "ImportExportDocumentArray",
                      "ImportExportDocumentNested"}},
      {[variant |-> "ReverseRangeLookupDocument", avg_size |-> a,
        prefix |-> p, range_distance |-> d] :
         a \in AvgSizes("ReverseRangeLookupDocument"), p \in DocPrefixes,
         d \in {0, 100}},
      {[variant |-> "ExtReverseLookupDocument", avg_size |-> a,
        prefix |-> p, num_docs |-> n] :
         a \in AvgSizes("ExtReverseLookupDocument"), p \in DocPrefixes,
         n \in 0..MaxDocs},
      {[variant |-> "JoinedDocument", avg_size |-> OVERHEAD("JoinedDocument"),
        prefix |-> p, num_docs |-> n, num_categories |-> c,
        num_replies |-> m] :
         p \in DocPrefixes, n \in 0..MaxDocs, c \in 0..MaxCategories,
         m \in 0..MaxReplies},
      {[variant |-> "RefDocument", avg_size |-> OVERHEAD("RefDocument"),
        prefix |-> p] : p \in DocPrefixes},
      {[variant |-> "ArrayIndexingDocument", avg_size |-> a, prefix |-> p,
        array_size |-> s, num_docs |-> n] :
         a \in AvgSizes("ArrayIndexingDocument"), p \in DocPrefixes,
         s \in 0..MaxArray, n \in {0, 1, MaxDocs}} }

RandomSources == [seed : 0..MaxSeed, step : 0..MaxStep, drawn : {0}]

DocKeyNumbers == (0..MaxKey) \cup {PRIME}

\* The Key of NewOrderedKey(prefix='t', fmtr='decimal').next(number)
DocKey(number) ==
    [number |-> number, string |-> KeyString(number, <<"t">>, "decimal")]

\* The first call picks the key, the later calls repeat it
Keys == IF docs = <<>> THEN {DocKey(n) : n \in DocKeyNumbers} ELSE {dkey}

\* next(key) ends with res.doc after res.used draws
Returns(res, key) ==
    /\ docs' = Append(docs, res.doc)
    /\ rnd' = [rnd EXCEPT !.drawn = @ + res.used]
    /\ dkey' = key
    /\ UNCHANGED <<docgen, keygen>>
    /\ UNCHANGED keyVars
    /\ UNCHANGED resVars
    /\ UNCHANGED cfgVars
    /\ UNCHANGED conVars

\* Document.next(key)
DocumentNext ==
    /\ docgen.variant = "Document"
    /\ Len(docs) < MaxCalls
    /\ \E key \in Keys : Returns(DocumentDoc(docgen, key, rnd, 0), key)

\* NestedDocument.next(key)
NestedDocumentNext ==
    /\ docgen.variant = "NestedDocument"
    /\ Len(docs) < MaxCalls
    /\ \E key \in Keys : Returns(NestedDocumentDoc(docgen, key, rnd, 0), key)

\* String.next
StringNext ==
    /\ docgen.variant = "String"
    /\ Len(docs) < MaxCalls
    /\ \E key \in Keys :
         LET g == docgen
             r == rnd
             k0 == 0
             res == [doc |-> BuildString(BuildAlphabet(key.string), 100 * g.avg_size),
                     used |-> 0]
         IN Returns(res, key)

\* LargeDocument.next
LargeDocumentNext ==
    /\ docgen.variant = "LargeDocument"
    /\ Len(docs) < MaxCalls
    /\ \E key \in Keys :
         LET g == docgen
             r == rnd
             k0 == 0
             res == LET alphabet == BuildAlphabet(key.string)
                        nest1 == NestedDocumentDoc(g, key, r, k0)
                        nest2 == DocumentDoc(g, key, r, k0 + nest1.used)
                        k == k0 + nest1.used + nest2.used
                    IN [doc |-> [nest1 |-> nest1.doc,
                                 nest2 |-> nest2.doc,
                                 name |-> BuildName(alphabet),
                                 email |-> BuildEmail(alphabet),
                                 alt_email |-> BuildAltEmail(alphabet, r, k + 1),
                                 city |-> BuildCity(alphabet),
                                 realm |-> BuildRealm(alphabet),
                                 coins |-> BuildCoins(alphabet),
                                 category |-> BuildCategory(alphabet),
                                 achievements |-> BuildAchievements(alphabet)],
                        used |-> nest1.used + nest2.used + 2]
         IN Returns(res, key)

\* ReverseLookupDocument.next, which ExtReverseLookupDocument inherits
ReverseLookupDocumentNext ==
    /\ docgen.variant \in {"ReverseLookupDocument",
                          "ExtReverseLookupDocument"}
    /\ Len(docs) < MaxCalls
    /\ \E key \in Keys :
         LET g == docgen
             r == rnd
             k0 == 0
             res == LET alphabet == BuildAlphabet(key.string)
                        size == Size(g, r, k0 + 1)
                        email == BuildEmailByMode(g, alphabet, r, k0 + size.used + 1)
                        k == k0 + size.used + email.used
                        capped_small == BuildCapped(g, alphabet, key.number, 100, r, k + 3)
                        used == size.used + email.used + 2 + capped_small.used
                    IN IF TopicsRaise(g) THEN Raises("ZeroDivisionError", used)
                       ELSE
                       [doc |-> [name |-> BuildName(alphabet),
                                 email |-> email.value,
                                 alt_email |-> BuildAltEmail(alphabet, r, k + 1),
                                 street |-> BuildStreet(alphabet),
                                 city |-> BuildCity(alphabet),
                                 county |-> BuildCounty(alphabet),
                                 state |-> BuildState(alphabet),
                                 full_state |-> BuildFullState(alphabet),
                                 country |-> BuildCountry(alphabet),
                                 realm |-> BuildRealm(alphabet),
                                 coins |-> BuildCoins(alphabet),
                                 category |-> BuildCategory(alphabet),
                                 achievements |-> BuildAchievements(alphabet),
                                 gmtime |-> BuildGmtime(alphabet),
                                 year |-> BuildYear(alphabet),
                                 body |-> BuildString(alphabet, size.size),
                                 capped_small |-> capped_small.value,
                                 topics |-> BuildTopics(g, key.number)],
                        used |-> used]
         IN Returns(res, key)

\* ReverseRangeLookupDocument.next; distance = range_distance + 1
ReverseRangeLookupDocumentNext ==
    /\ docgen.variant = "ReverseRangeLookupDocument"
    /\ Len(docs) < MaxCalls
    /\ \E key \in Keys :
         LET g == docgen
             r == rnd
             k0 == 0
             res == LET alphabet == BuildAlphabet(key.string)
                        size == Size(g, r, k0 + 1)
                        email == BuildEmailByMode(g, alphabet, r, k0 + size.used + 1)
                        k == k0 + size.used + email.used
                        distance == g.range_distance + 1
                        capped_small == BuildCapped(g, alphabet, key.number, 100, r, k + 3)
                        capped_small_range ==
                            BuildCapped(g, alphabet, key.number + (distance * 100), 100,
                                        r, k + 3 + capped_small.used)
                    IN [doc |-> [name |-> BuildName(alphabet),
                                 email |-> email.value,
                                 alt_email |-> BuildAltEmail(alphabet, r, k + 1),
                                 street |-> BuildStreet(alphabet),
                                 city |-> BuildCity(alphabet),
                                 county |-> BuildCounty(alphabet),
                                 state |-> BuildState(alphabet),
                                 full_state |-> BuildFullState(alphabet),
                                 country |-> BuildCountry(alphabet),
                                 realm |-> BuildRealm(alphabet),
                                 coins |-> BuildCoins(alphabet),
                                 category |-> BuildCategory(alphabet),
                                 achievements |-> BuildAchievements(alphabet),
                                 gmtime |-> BuildGmtime(alphabet),
                                 year |-> BuildYear(alphabet),
                                 body |-> BuildString(alphabet, size.size),
                                 capped_small |-> capped_small.value,
                                 capped_small_range |-> capped_small_range.value,
                                 topics |-> BuildTopics(g, key.number)],
                        used |-> size.used + email.used + 2 + capped_small.used
                                   + capped_small_range.used]
         IN Returns(res, key)

\* JoinedDocument.next
JoinedDocumentNext ==
    /\ docgen.variant = "JoinedDocument"
    /\ Len(docs) < MaxCalls
    /\ \E key \in Keys :
         LET g == docgen
             r == rnd
             k0 == 0
             res == LET alphabet == BuildAlphabet(key.string)
                        capped == BuildCapped(g, alphabet, key.number, 100, r, k0 + 1)
                    IN IF g.num_docs \div 4 = 0 THEN Raises("ZeroDivisionError", 0)
                       ELSE IF g.num_categories = 0
                            THEN Raises("ZeroDivisionError", capped.used)
                       ELSE
                       [doc |-> [owner |-> BuildOwner(g, key.number),
                                 title |-> BuildTitle(alphabet),
                                 capped |-> capped.value,
                                 categories |-> BuildCategories(g, key.number),
                                 replies |-> BuildReplies(g, key.number)],
                        used |-> capped.used]
         IN Returns(res, key)

\* RefDocument.next
RefDocumentNext ==
    /\ docgen.variant = "RefDocument"
    /\ Len(docs) < MaxCalls
    /\ \E key \in Keys :
         LET g == docgen
             r == rnd
             k0 == 0
             res == [doc |-> [name |-> BuildRefName(g, key.number)], used |-> 0]
         IN Returns(res, key)

\* ArrayIndexingDocument.next
ArrayIndexingDocumentNext ==
    /\ docgen.variant = "ArrayIndexingDocument"
    /\ Len(docs) < MaxCalls
    /\ \E key \in Keys :
         LET g == docgen
             r == rnd
             k0 == 0
             res == IF IsRandom(g) /\ g.array_size < 1
                    THEN Raises("ValueError", Size(g, r, k0 + 1).used + 2)
                    ELSE
                    LET alphabet == BuildAlphabet(key.string)
                        size == Size(g, r, k0 + 1)
                        k == k0 + size.used
                        achievements1 == BuildAchievements1(g, key.number + 1, r, k + 3)
                        achievements2 == BuildAchievements2(g, key.number + 1, r,
                                                            k + 3 + achievements1.used)
                        capped_small == BuildCapped(g, alphabet, key.number, 100, r,
                                                    k + 3 + achievements1.used
                                                      + achievements2.used)
                    IN [doc |-> [name |-> BuildName(alphabet),
                                 email |-> BuildEmail(alphabet),
                                 alt_email |-> BuildAltEmail(alphabet, r, k + 1),
                                 street |-> BuildStreet(alphabet),
                                 city |-> BuildCity(alphabet),
                                 county |-> BuildCounty(alphabet),
                                 state |-> BuildState(alphabet),
                                 full_state |-> BuildFullState(alphabet),
                                 country |-> BuildCountry(alphabet),
                                 realm |-> BuildRealm(alphabet),
                                 coins |-> BuildCoins(alphabet),
                                 category |-> BuildCategory(alphabet),
                                 achievements1 |-> achievements1.value,
                                 achievements2 |-> achievements2.value,
                                 gmtime |-> BuildGmtime(alphabet),
                                 year |-> BuildYear(alphabet),
                                 body |-> BuildString(alphabet, size.size),
                                 capped_small |-> capped_small.value,
                                 topics |-> BuildTopics(g, key.number)],
                        used |-> size.used + 2 + achievements1.used + achievements2.used
                                   + capped_small.used]
         IN Returns(res, key)

\* ProfileDocument.next
ProfileDocumentNext ==
    /\ docgen.variant = "ProfileDocument"
    /\ Len(docs) < MaxCalls
    /\ \E key \in Keys :
         LET g == docgen
             r == rnd
             k0 == 0
             res == LET alphabet == BuildAlphabet(key.string)
                        size == Size(g, r, k0 + 1)
                        category == BuildCategory(alphabet) + 1
                        capped_large == BuildCapped(g, alphabet, key.number,
                                                    1000 * category, r, k0 + size.used + 1)
                        capped_small == BuildCapped(g, alphabet, key.number, 10, r,
                                                    k0 + size.used + capped_large.used + 1)
                        k1 == k0 + size.used + capped_large.used + capped_small.used
                        email == BuildEmailByMode(g, alphabet, r, k1 + 1)
                        street == BuildLongStreet(g, alphabet, key.number, capped_small.value,
                                                  capped_large.value, r, k1 + email.used + 1)
                        zip == BuildZip(g, key.number, r, k1 + email.used + street.used + 1)
                    IN [doc |-> [first_name |-> BuildName(alphabet),
                                 last_name |-> BuildStreet(alphabet),
                                 email |-> email.value,
                                 balance |-> BuildCoins(alphabet),
                                 date |-> [gmtime |-> BuildGmtime(alphabet),
                                           year |-> BuildYear(alphabet)],
                                 capped_large |-> capped_large.value,
                                 address |-> [street |-> street.value,
                                              city |-> BuildCity(alphabet),
                                              county |-> BuildCounty(alphabet),
                                              state |-> BuildState(alphabet),
                                              zip |-> zip.value,
                                              realm |-> BuildRealm(alphabet)],
                                 body |-> BuildString(alphabet, size.size)],
                        used |-> size.used + capped_large.used + capped_small.used
                                   + email.used + street.used + zip.used]
         IN Returns(res, key)

\* ImportExportDocument.next
ImportExportDocumentNext ==
    /\ docgen.variant = "ImportExportDocument"
    /\ Len(docs) < MaxCalls
    /\ \E key \in Keys :
         LET g == docgen
             r == rnd
             k0 == 0
             res == ImportExportFields(g, key, r, k0, ImportExportCaps)
         IN Returns(res, key)

\* ImportExportDocumentArray.next: the fields are bound one after another,
\* in the order the dict evaluates them, each to its value and the number
\* of the last draw made for it
ImportExportDocumentArrayNext ==
    /\ docgen.variant = "ImportExportDocumentArray"
    /\ Len(docs) < MaxCalls
    /\ \E key \in Keys :
         LET g == docgen
             r == rnd
             k0 == 0
             alphabet == BuildAlphabet(key.string)
             size == Size(g, r, k0 + 1)
         IN
        \E name \in {RandomArray(TimesSeq(BuildName(alphabet), r,
                     k0 + size.used + 1, 9), 5, r, k0 + size.used + 1)} :
        \E email0 \in {BuildEmailByMode(g, alphabet, r, name.at + 1)} :
        \E email \in {Drawn(TimesSeq(email0.value, r,
                      name.at + email0.used + 1, 5),
                      name.at + email0.used + 1)} :
        \E alt_email \in {Drawn(TimesSeq(BuildAltEmail(alphabet, r,
                          email.at + 1), r, email.at + 3, 9),
                          email.at + 3)} :
        \E street \in {RandomArray(TimesSeq(BuildStreet(alphabet), r,
                       alt_email.at + 1, 9), 5, r, alt_email.at + 1)} :
        \E city \in {RandomArray(TimesSeq(BuildCity(alphabet), r,
                     street.at + 1, 9), 5, r, street.at + 1)} :
        \E county \in {RandomArray(TimesSeq(BuildCounty(alphabet), r,
                       city.at + 1, 9), 5, r, city.at + 1)} :
        \E state \in {RandomArrayOfEntry(TimesEntry(BuildState(alphabet), r,
                      county.at + 1, 9), 5, r, county.at + 1)} :
        \E full_state \in {RandomArrayOfEntry(TimesEntry(BuildFullState(alphabet),
                           r, state.at + 1, 9), 5, r, state.at + 1)} :
        \E country \in {RandomArray(TimesSeq(BuildCountry(alphabet), r,
                        full_state.at + 1, 9), 5, r, full_state.at + 1)} :
        \E realm \in {Drawn(TimesSeq(BuildRealm(alphabet), r, country.at + 1,
                      9), country.at + 1)} :
        \E alt_street \in {RandomArray(TimesSeq(BuildStreet(alphabet), r,
                           realm.at + 1, 9), 5, r, realm.at + 1)} :
        \E alt_city \in {RandomArray(TimesSeq(BuildCity(alphabet), r,
                         alt_street.at + 1, 9), 5, r, alt_street.at + 1)} :
        \E alt_county \in {Drawn(TimesSeq(BuildCounty(alphabet), r,
                           alt_city.at + 1, 9), alt_city.at + 1)} :
        \E alt_state \in {Drawn(TimesEntry(BuildState(alphabet), r,
                          alt_county.at + 1, 9), alt_county.at + 1)} :
        \E alt_full_state \in {Drawn(TimesEntry(BuildFullState(alphabet), r,
                               alt_state.at + 1, 9), alt_state.at + 1)} :
        \E alt_country \in {Drawn(TimesSeq(BuildCountry(alphabet), r,
                            alt_full_state.at + 1, 9),
                            alt_full_state.at + 1)} :
        \E alt_realm \in {Drawn(TimesSeq(BuildRealm(alphabet), r,
                          alt_country.at + 1, 9), alt_country.at + 1)} :
        \E coins \in {Drawn(TimesNum(BuildCoins(alphabet), r,
                      alt_realm.at + 1, 999), alt_realm.at + 1)} :
        \E category \in {Drawn(TimesNum(BuildCategory(alphabet), r,
                         coins.at + 1, 9), coins.at + 1)} :
        \E gmtime \in {Drawn(TimesSeq(BuildGmtime(alphabet), r,
                       category.at + 1, 9), category.at + 1)} :
        \E year \in {Drawn(TimesNum(BuildYear(alphabet), r, gmtime.at + 1,
                     5), gmtime.at + 1)} :
        \E body \in {RandomArray(BuildString(alphabet, size.size), 7, r,
                     year.at)} :
        \E capped_small0 \in {BuildCapped(g, alphabet, key.number, 100, r,
                              body.at + 1)} :
        \E capped_small \in {Drawn(TimesSeq(capped_small0.value, r,
                             body.at + capped_small0.used + 1, 5),
                             body.at + capped_small0.used + 1)} :
        \E alt_capped_small0 \in {BuildCapped(g, alphabet, key.number, 100,
                                  r, capped_small.at + 1)} :
        \E alt_capped_small \in {Drawn(TimesSeq(alt_capped_small0.value, r,
                                 capped_small.at + alt_capped_small0.used + 1,
                                 5),
                                 capped_small.at + alt_capped_small0.used + 1)} :
        Returns(
          [doc |->
             [name |-> name.value,
              email |-> email.value,
              alt_email |-> alt_email.value,
              street |-> street.value,
              city |-> city.value,
              county |-> county.value,
              state |-> state.value,
              full_state |-> full_state.value,
              country |-> country.value,
              realm |-> realm.value,
              alt_street |-> alt_street.value,
              alt_city |-> alt_city.value,
              alt_county |-> alt_county.value,
              alt_state |-> alt_state.value,
              alt_full_state |-> alt_full_state.value,
              alt_country |-> alt_country.value,
              alt_realm |-> alt_realm.value,
              coins |-> coins.value,
              category |-> category.value,
              achievements |-> BuildAchievements(alphabet),
              gmtime |-> gmtime.value,
              year |-> year.value,
              body |-> body.value,
              capped_small |-> capped_small.value,
              alt_capped_small |-> alt_capped_small.value],
           used |-> alt_capped_small.at - k0], key)

\* ImportExportDocumentNested.next
ImportExportDocumentNestedNext ==
    /\ docgen.variant = "ImportExportDocumentNested"
    /\ Len(docs) < MaxCalls
    /\ \E key \in Keys :
         LET g == docgen
             r == rnd
             k0 == 0
             Nested(f) ==
                 [name |-> Nest4("n", "a", "m", "e", f.name),
                  email |-> Nest4("e", "m", "a", "i", f.email),
                  alt_email |-> Nest4("a", "l", "t", "e", f.alt_email),
                  street |-> Nest4("s", "t", "r", "e", f.street),
                  city |-> Nest4("c", "i", "t", "y", f.city),
                  county |-> Nest4("c", "o", "u", "n", f.county),
                  state |-> Nest4("s", "t", "a", "t", f.state),
                  full_state |-> Nest4("f", "u", "l", "l", f.full_state),
                  country |-> Nest4("c", "o", "u", "n", f.country),
                  realm |-> Nest4("r", "e", "a", "l", f.realm),
                  alt_street |-> Nest4("a", "l", "t", "s", f.alt_street),
                  alt_city |-> Nest4("a", "l", "t", "c", f.alt_city),
                  alt_county |-> Nest4("e", "m", "a", "i", f.alt_county),
                  alt_state |-> Nest4("e", "m", "a", "i", f.alt_state),
                  alt_full_state |-> Nest4("e", "m", "a", "i",
                           f.alt_full_state),
                  alt_country |-> Nest4("e", "m", "a", "i", f.alt_country),
                  alt_realm |-> Nest4("e", "m", "a", "i", f.alt_realm),
                  coins |-> Nest4("e", "m", "a", "i", f.coins),
                  category |-> Nest4("e", "m", "a", "i", f.category),
                  achievements |-> f.achievements,
                  gmtime |-> f.gmtime,
                  year |-> f.year,
                  body |-> f.body,
                  capped_small |-> f.capped_small,
                  alt_capped_small |-> f.alt_capped_small]
             flat == ImportExportFields(g, key, r, k0,
                                        ImportExportNestedCaps)
             res == [doc |-> Nested(flat.doc), used |-> flat.used]
         IN Returns(res, key)

\* GSIMultiIndexDocument.next
GSIMultiIndexDocumentNext ==
    /\ docgen.variant = "GSIMultiIndexDocument"
    /\ Len(docs) < MaxCalls
    /\ \E key \in Keys :
         LET g == docgen
             r == rnd
             k0 == 0
             res == LET alphabet == BuildAlphabet(key.string)
                        size == Size(g, r, k0 + 1)
                        k == k0 + size.used
                    IN [doc |-> [name |-> BuildAltEmail(alphabet, r, k + 1),
                                 email |-> BuildEmail(alphabet),
                                 alt_email |-> BuildAltEmail(alphabet, r, k + 3),
                                 city |-> BuildAltEmail(alphabet, r, k + 5),
                                 realm |-> BuildRealm(alphabet),
                                 coins |-> BuildCoins(alphabet),
                                 category |-> BuildCategory(alphabet),
                                 achievements |-> BuildAchievements(alphabet),
                                 body |-> BuildString(alphabet, size.size)],
                        used |-> size.used + 6]
         IN Returns(res, key)

\* LargeItemPlasmaDocument.next
LargeItemPlasmaDocumentNext ==
    /\ docgen.variant = "LargeItemPlasmaDocument"
    /\ Len(docs) < MaxCalls
    /\ \E key \in Keys :
         LET g == docgen
             r == rnd
             k0 == 0
             res == LET alphabet == BuildAlphabet(key.string)
                        size == Size(g, r, k0 + 1)
                        k == k0 + size.used
                    IN IF g.item_size < 1 THEN Raises("ValueError", size.used + 2)
                       ELSE
                       [doc |-> [name |-> BuildName(alphabet),
                                 email |-> BuildEmail(alphabet),
                                 alt_email |-> BuildAltEmail(alphabet, r, k + 1),
                                 city |-> BuildItem(alphabet, g.item_size, <<>>, r, k + 3),
                                 realm |-> BuildRealm(alphabet),
                                 coins |-> BuildCoins(alphabet),
                                 category |-> BuildCategory(alphabet),
                                 achievements |-> BuildAchievements(alphabet),
                                 body |-> BuildString(alphabet, size.size)],
                        used |-> size.used + 3]
         IN Returns(res, key)

\* VaryingItemSizePlasmaDocument.next
VaryingItemSizePlasmaDocumentNext ==
    /\ docgen.variant = "VaryingItemSizePlasmaDocument"
    /\ Len(docs) < MaxCalls
    /\ \E key \in Keys :
         LET g == docgen
             r == rnd
             k0 == 0
             res == LET alphabet == BuildAlphabet(key.string)
                        size == Size(g, r, k0 + 1)
                        k == k0 + size.used
                    IN IF g.size_variation_min > g.size_variation_max
                       THEN Raises("ValueError", size.used)
                       ELSE
                       LET length == RandInt(r, k + 1, g.size_variation_min,
                                             g.size_variation_max)
                       IN IF length < 1 THEN Raises("ValueError", size.used + 3)
                          ELSE
                          [doc |-> [name |-> BuildName(alphabet),
                                    email |-> BuildEmail(alphabet),
                                    alt_email |-> BuildAltEmail(alphabet, r, k + 2),
                                    city |-> BuildItem(alphabet, length, <<>>, r, k + 4),
                                    realm |-> BuildRealm(alphabet),
                                    coins |-> BuildCoins(alphabet),
                                    category |-> BuildCategory(alphabet),
                                    achievements |-> BuildAchievements(alphabet),
                                    body |-> BuildString(alphabet, size.size)],
                           used |-> size.used + 4]
         IN Returns(res, key)

InitDoc ==
    /\ InitThreadsIdle
    /\ InitSamplerIdle
    /\ docgen \in DocGens
    /\ rnd \in RandomSources
    /\ dkey = NoDocKey
    /\ docs = <<>>
    /\ keygen = NoKeyGen
    /\ ws = [items |-> 0, workers |-> 1, working_set |-> 0]
    /\ phase = "docs"
    /\ sid = 0
    /\ gen = [cursor |-> 0, number |-> 0]
    /\ seqKeys = NoKeys(ws)
    /\ unordKeys = NoKeys(ws)
    /\ hotKeys = NoKeys(ws)
    /\ wsk = [kind |-> "none"]
    /\ last = NoKey
    /\ InitReservoirIdle
    /\ InitConfigIdle

NextDoc ==
    \/ StringNext
    \/ DocumentNext
    \/ NestedDocumentNext
    \/ LargeDocumentNext
    \/ ReverseLookupDocumentNext
    \/ ReverseRangeLookupDocumentNext
    \/ JoinedDocumentNext
    \/ RefDocumentNext
    \/ ArrayIndexingDocumentNext
    \/ ProfileDocumentNext
    \/ ImportExportDocumentNext
    \/ ImportExportDocumentArrayNext
    \/ ImportExportDocumentNestedNext
    \/ GSIMultiIndexDocumentNext
    \/ LargeItemPlasmaDocumentNext
    \/ VaryingItemSizePlasmaDocumentNext

SpecDoc == InitDoc /\ [][NextDoc]_vars

----------------------------------------------------------------------------
(* Properties of the document generators (SpecDoc) *)

HasPrefix(g) == "prefix" \in DOMAIN g

\* Deterministic mode: the generator was constructed with prefix 'n1ql'
Deterministic(g) == HasPrefix(g) /\ ~IsRandom(g)

\* C14: the calls next(key) of a generator constructed in Deterministic
\* mode, with one key, return equal documents whatever the random source
\* yields.
DeterministicDocsRepeat ==
    Deterministic(docgen) =>
        \A i \in 1..Len(docs), j \in 1..Len(docs) : docs[i] = docs[j]

IsRaised(doc) == "raised" \in DOMAIN doc

\* The id a reference string stands for, -1 unless it is the generator's
\* 'prefix-' followed by 12 digits
RefId(str, g) ==
    LET lead == IF g.prefix = <<>> THEN 0 ELSE Len(g.prefix) + 1
        digits == SubSeq(str, lead + 1, Len(str))
    IN IF /\ Len(str) = lead + KEY_WIDTH
          /\ IsDigits(digits)
          /\ lead > 0 => SubSeq(str, 1, lead) = g.prefix \o <<"-">>
       THEN ParseDecimal(digits)
       ELSE -1

JoinedReturned(i) ==
    /\ docgen.variant = "JoinedDocument"
    /\ docgen.num_docs >= 4
    /\ docgen.num_categories >= 1
    /\ i \in 1..Len(docs)

ExtReverseLookupReturned(i) ==
    /\ docgen.variant = "ExtReverseLookupDocument"
    /\ docgen.num_docs >= 4
    /\ i \in 1..Len(docs)

\* C15: for num_docs >= 4 and num_categories >= 1, next() does not raise,
\* the owner of a JoinedDocument is an id below num_docs // 4, its four
\* categories are ids below num_categories, the user of each of its replies
\* and the four topics of an ExtReverseLookupDocument are ids below num_docs.
ReferencesResolve ==
    \A i \in 1..Len(docs) :
        /\ JoinedReturned(i) =>
             /\ ~IsRaised(docs[i])
             /\ RefId(docs[i].owner, docgen)
                  \in 0..((docgen.num_docs \div 4) - 1)
             /\ Len(docs[i].categories) = 4
             /\ \A c \in 1..4 :
                  RefId(docs[i].categories[c], docgen)
                    \in 0..(docgen.num_categories - 1)
             /\ Len(docs[i].replies) = docgen.num_replies
             /\ \A m \in 1..Len(docs[i].replies) :
                  RefId(docs[i].replies[m].user, docgen)
                    \in 0..(docgen.num_docs - 1)
        /\ ExtReverseLookupReturned(i) =>
             /\ ~IsRaised(docs[i])
             /\ Len(docs[i].topics) = 4
             /\ \A t \in 1..4 :
                  RefId(docs[i].topics[t], docgen) \in 0..(docgen.num_docs - 1)

\* C15 witness: a JoinedDocument with replies whose owner is not the id of
\* its key, and an ExtReverseLookupDocument whose topics wrapped around
ReferencesWrapped ==
    \/ /\ JoinedReturned(1)
       /\ docgen.num_docs \div 4 > 1
       /\ docgen.num_replies > 1
       /\ dkey.number >= docgen.num_docs
       /\ RefId(docs[1].owner, docgen) > 0
    \/ /\ ExtReverseLookupReturned(1)
       /\ dkey.number + 11 >= docgen.num_docs
       /\ RefId(docs[1].topics[1], docgen) > 0

\* The bodies of a document: its 'body' and those of its nested documents
Bodies(doc) ==
    (IF "body" \in DOMAIN doc THEN {doc.body} ELSE {})
      \cup (IF "nest1" \in DOMAIN doc THEN {doc.nest1.body} ELSE {})
      \cup (IF "nest2" \in DOMAIN doc THEN {doc.nest2.body} ELSE {})

----------------------------------------------------------------------------
(* Config of perfrunner/settings.py. Strings are sequences of characters.  *)
(* A ConfigParser is the set of its sections, its items as a function of   *)
(* the pairs <<section, option>> and the options of its DEFAULT section.   *)

MaxText == 2
MaxOverride == 2

DEFAULTSECT == <<"D", "E", "F", "A", "U", "L", "T">>

\* dict[key] = value
DictSet(dict, key, value) ==
    [x \in (DOMAIN dict) \cup {key} |-> IF x = key THEN value ELSE dict[x]]

\* ConfigParser.has_section(section), as Config.override calls it
HasSection(cp, section) == section \in cp.sections

\* ConfigParser.add_section(section), as Config.override calls it: the
\* name of the DEFAULT section is refused
AddSection(cp, section) ==
    IF section = DEFAULTSECT
    THEN [cp |-> cp, raised |-> "ValueError"]
    ELSE [cp |-> [cp EXCEPT !.sections = @ \cup {section}],
          raised |-> "none"]

\* ConfigParser.set(section, option, value), as Config.override calls it,
\* for a value without '%': an empty section name stands for DEFAULT;
\* optionxform is str, the option keeps its case
ConfigSet(cp, section, option, value) ==
    IF section = <<>> \/ section = DEFAULTSECT
    THEN [cp EXCEPT !.defaults = DictSet(@, option, value)]
    ELSE [cp EXCEPT !.items = DictSet(@, <<section, option>>, value)]

\* ConfigParser.read(fname): the sections and items of the file are merged
\* into the parser
ConfigRead(cp, file) ==
    [cp EXCEPT !.sections = @ \cup file.sections,
               !.items = [x \in (DOMAIN @) \cup (DOMAIN file.items) |->
                            IF x \in DOMAIN file.items THEN file.items[x]
                            ELSE @[x]]]

\* s.rfind(c) + 1: the place of the last c in s, 0 when there is none
PyRFind(s, c) ==
    LET at == {i \in 1..Len(s) : s[i] = c}
    IN IF at = {} THEN 0 ELSE CHOOSE i \in at : \A j \in at : j <= i

\* os.path.basename(fname)
Basename(fname) == SubSeq(fname, PyRFind(fname, "/") + 1, Len(fname))

\* os.path.splitext(basename)[0]: the name up to its last dot, unless only
\* dots come before that dot
Splitext(basename) ==
    LET dot == PyRFind(basename, ".")
    IN IF \E i \in 1..(dot - 1) : basename[i] # "."
       THEN SubSeq(basename, 1, dot - 1)
       ELSE basename

----------------------------------------------------------------------------
(* csv.reader(lines, delimiter='.') of Config.override: the excel dialect  *)
(* with quotechar '"', doublequote, not strict. The lines hold no line     *)
(* break; a quoted field left open at the end of a line runs on into the   *)
(* next line.                                                              *)

EOL == "EOL"

\* One character c in the state of the reader: the state it leaves, the
\* field being read and the fields of the row
CsvChar(state, field, row, c) ==
    LET Save(st) == [state |-> st, field |-> <<>>, row |-> Append(row, field)]
        Add(st) == [state |-> st, field |-> Append(field, c), row |-> row]
        Skip(st) == [state |-> st, field |-> field, row |-> row]
    IN CASE state = "START_RECORD" /\ c = EOL -> Skip("START_RECORD")
         [] state \in {"START_RECORD", "START_FIELD"} /\ c # EOL ->
              IF c = "\"" THEN Skip("IN_QUOTED_FIELD")
              ELSE IF c = "." THEN Save("START_FIELD")
              ELSE Add("IN_FIELD")
         [] state = "START_FIELD" /\ c = EOL -> Save("START_RECORD")
         [] state = "IN_FIELD" ->
              IF c = EOL THEN Save("START_RECORD")
              ELSE IF c = "." THEN Save("START_FIELD")
              ELSE Add("IN_FIELD")
         [] state = "IN_QUOTED_FIELD" ->
              IF c = EOL THEN Skip("IN_QUOTED_FIELD")
              ELSE IF c = "\"" THEN Skip("QUOTE_IN_QUOTED_FIELD")
              ELSE Add("IN_QUOTED_FIELD")
         [] state = "QUOTE_IN_QUOTED_FIELD" ->
              IF c = EOL THEN Save("START_RECORD")
              ELSE IF c = "\"" THEN Add("IN_QUOTED_FIELD")
              ELSE IF c = "." THEN Save("START_FIELD")
              ELSE Add("IN_FIELD")

RECURSIVE CsvRows(_, _, _, _, _, _)

\* The rows the reader yields from character j of line i on
CsvRows(lines, i, j, state, field, row) ==
    IF i > Len(lines)
    THEN IF field # <<>> \/ state = "IN_QUOTED_FIELD"
         THEN <<Append(row, field)>>
         ELSE <<>>
    ELSE IF j <= Len(lines[i])
    THEN LET n == CsvChar(state, field, row, lines[i][j])
         IN CsvRows(lines, i, j + 1, n.state, n.field, n.row)
    ELSE LET n == CsvChar(state, field, row, EOL)
         IN IF n.state = "START_RECORD"
            THEN <<n.row>> \o CsvRows(lines, i + 1, 1, "START_RECORD",
                                      <<>>, <<>>)
            ELSE CsvRows(lines, i + 1, 1, n.state, n.field, n.row)

\* [x for x in csv.reader(override, delimiter='.')]
CsvReader(lines) == CsvRows(lines, 1, 1, "START_RECORD", <<>>, <<>>)

----------------------------------------------------------------------------
(* Config.override and Config.parse *)

RECURSIVE OverrideRows(_, _, _)

\* The loop of Config.override from row i on: a row that is not three
\* fields ends it with the ValueError of the unpacking, the rows before it
\* stay set
OverrideRows(cp, rows, i) ==
    IF i > Len(rows) THEN [cp |-> cp, raised |-> "none"]
    ELSE IF Len(rows[i]) # 3 THEN [cp |-> cp, raised |-> "ValueError"]
    ELSE LET section == rows[i][1]
             option == rows[i][2]
             value == rows[i][3]
             added == IF HasSection(cp, section)
                      THEN [cp |-> cp, raised |-> "none"]
                      ELSE AddSection(cp, section)
         IN IF added.raised # "none" THEN added
            ELSE OverrideRows(ConfigSet(added.cp, section, option, value),
                              rows, i + 1)

\* Config.override(override), override as the lines csv.reader iterates
ConfigOverride(cp, lines) == OverrideRows(cp, CsvReader(lines), 1)

\* 'section.option.value'
Entry(e) == e.section \o <<".">> \o e.option \o <<".">> \o e.value

\* What iterating over the override argument yields: the entries of a
\* list, the characters of a str
Lines(override) ==
    IF override.kind = "list"
    THEN [i \in DOMAIN override.entries |-> Entry(override.entries[i])]
    ELSE LET text == Entry(override.entries[1])
         IN [i \in DOMAIN text |-> <<text[i]>>]

\* Config._get_options_as_dict(section)
GetOptionsAsDict(cp, section) ==
    IF section \in cp.sections
    THEN [o \in {x[2] : x \in {y \in DOMAIN cp.items : y[1] = section}}
                  \cup DOMAIN cp.defaults |->
            IF <<section, o>> \in DOMAIN cp.items
            THEN cp.items[<<section, o>>]
            ELSE cp.defaults[o]]
    ELSE [o \in {} |-> <<>>]

----------------------------------------------------------------------------
(* SpecConfig: Config.parse is called once on a new Config object *)

\* The files there are: a file without sections and a file with the
\* sections s and t
TestFiles ==
    {[fname |-> <<"t", "/", "e", ".", "t">>, sections |-> {},
      items |-> [x \in {} |-> <<>>]],
     [fname |-> <<"t", "/", "q", ".", "t">>,
      sections |-> {<<"s">>, <<"t">>},
      items |-> [x \in {<<<<"s">>, <<"o">>>>, <<<<"s">>, <<"p">>>>,
                        <<<<"t">>, <<"o">>>>} |->
                   IF x[1] = <<"s">> THEN <<"5">> ELSE <<"6">>]]}

\* Strings of at most n characters of chars
Texts(chars, n) == UNION {[1..k -> chars] : k \in 0..n}

OverrideSections == {<<>>, <<"s">>, <<"u">>}
OverrideOptions == {<<"o">>, <<"q">>}

\* The entries 'section.option.value' given as overrides
Entries ==
    [section : OverrideSections, option : OverrideOptions,
     value : Texts({"7", ".", "\""}, MaxText)]

\* The entries without dot or quote that accompany another entry
PlainEntries ==
    [section : OverrideSections, option : {<<"o">>}, value : {<<"8">>}]

\* The override arguments: None, one entry as a str, and lists of at most
\* MaxOverride entries of which all but one are plain
Overrides ==
    {[kind |-> "None", entries |-> <<>>]}
    \cup {[kind |-> "str", entries |-> <<e>>] : e \in Entries}
    \cup UNION {{[kind |-> "list",
                  entries |-> [i \in 1..n |-> IF i = j THEN e ELSE plain[i]]] :
                   j \in 1..n, e \in Entries, plain \in [1..n -> PlainEntries]} :
                n \in 1..MaxOverride}

\* Config.parse(fname, override) for a file that exists
ConfigParse ==
    /\ parsed = NotParsed
    /\ \E file \in TestFiles, override \in Overrides :
         LET read == [ConfigRead(config, file) EXCEPT
                        !.name = Splitext(Basename(file.fname))]
             res == IF override.kind = "None"
                    THEN [cp |-> read, raised |-> "none"]
                    ELSE ConfigOverride(read, Lines(override))
         IN /\ config' = res.cp
            /\ parsed' = [fname |-> file.fname, override |-> override,
                          read |-> read, raised |-> res.raised]
    /\ UNCHANGED <<keygen, docgen, rnd, dkey, docs>>
    /\ UNCHANGED keyVars
    /\ UNCHANGED resVars
    /\ UNCHANGED conVars

InitConfig ==
    /\ InitThreadsIdle
    /\ InitSamplerIdle
    /\ InitConfigIdle
    /\ docgen = NoDocGen
    /\ rnd = [seed |-> 0, step |-> 0, drawn |-> 0]
    /\ dkey = NoDocKey
    /\ docs = <<>>
    /\ keygen = NoKeyGen
    /\ ws = [items |-> 0, workers |-> 1, working_set |-> 0]
    /\ phase = "config"
    /\ sid = 0
    /\ gen = [cursor |-> 0, number |-> 0]
    /\ seqKeys = NoKeys(ws)
    /\ unordKeys = NoKeys(ws)
    /\ hotKeys = NoKeys(ws)
    /\ wsk = [kind |-> "none"]
    /\ last = NoKey
    /\ InitReservoirIdle

NextConfig == ConfigParse

SpecConfig == InitConfig /\ [][NextConfig]_vars

----------------------------------------------------------------------------
(* Properties of SpecConfig *)

NoOption == <<"KeyError">>

\* _get_options_as_dict(section)[option], NoOption when it has no such key
ReadBack(cp, section, option) ==
    LET options == GetOptionsAsDict(cp, section)
    IN IF option \in DOMAIN options THEN options[option] ELSE NoOption

Overridden == parsed # NotParsed /\ parsed.override.kind # "None"

Named(entries, section, option) ==
    \E i \in DOMAIN entries :
        entries[i].section = section /\ entries[i].option = option

\* C20: after Config.parse(fname, override) every entry
\* 'section.option.value' of override makes the option read back as value,
\* also when the file has another value or lacks the section, and every
\* option that no entry names reads back as after reading the file.
OverrideReadsBack ==
    Overridden =>
        LET entries == parsed.override.entries
        IN /\ \A i \in DOMAIN entries :
                 ReadBack(config, entries[i].section, entries[i].option)
                     = entries[i].value
           /\ \A section \in OverrideSections \cup {<<"t">>},
                 option \in OverrideOptions \cup {<<"p">>} :
                 ~Named(entries, section, option) =>
                     ReadBack(config, section, option)
                         = ReadBack(parsed.read, section, option)

----------------------------------------------------------------------------
(* The replacement step of Reservoir.update (SpecReservoir) *)

\* A step of update with a value that is not falsy, on a full reservoir
FullUpdate == count' = count + 1 /\ Len(values) = capacity

\* C21: an update of a full reservoir with a value that is not falsy raises
\* count to c and draws r in 0..c-1; it writes the new sample to slot r when
\* r < capacity and leaves values as they are otherwise; every other slot is
\* unchanged, and capacity of the c draws keep the new sample.
AlgorithmRStep ==
    [][FullUpdate =>
         /\ slot' \in 0..(count' - 1)
         /\ Len(values') = Len(values)
         /\ \A i \in 1..Len(values) : i # slot' + 1 => values'[i] = values[i]
         /\ slot' < capacity => offers'[slot' + 1] = count'
         /\ slot' >= capacity => values' = values /\ offers' = offers
         /\ Cardinality({r \in RandomSlots(count') : Replaces(r, capacity)})
                = capacity]_vars

\* C21 witness: the last update overwrote the second slot of a full
\* reservoir, the first slot is an older sample
SecondSlotOverwritten ==
    /\ ended = "sampled"
    /\ slot = 1
    /\ capacity > 1
    /\ count > capacity
    /\ offers[2] = count
    /\ offers[1] < count

----------------------------------------------------------------------------
(* The live range of WorkingSetKey (SpecAccess) *)

\* C22: a key WorkingSetKey.next returns for curr_items > curr_deletes >= 0,
\* any curr_offset >= 0 and either outcome of the hit test has its id in the
\* live range curr_deletes..curr_items-1.
WorkingSetKeyInLiveRange ==
    (Returned /\ last.call.curr_items > last.call.curr_deletes
              /\ last.call.curr_deletes >= 0 /\ last.call.curr_offset >= 0)
        => last.number \in last.call.curr_deletes..(last.call.curr_items - 1)

----------------------------------------------------------------------------
(* Empty and inverted live intervals (SpecNext, SpecAccess) *)

\* The last call was next() of a generator that takes the live interval:
\* UniformKey or ZipfKey, or the WorkingSetKey of SpecAccess
IntervalCall ==
    /\ last # NoKey
    /\ IF "gen" \in DOMAIN last.call
       THEN last.call.gen \in {"UniformKey", "ZipfKey"}
       ELSE wsk.kind = "wsk"

\* C23: UniformKey.next, WorkingSetKey.next and ZipfKey.next called with
\* curr_items <= curr_deletes end in an error and return no Key.
EmptyIntervalRaises ==
    (IntervalCall /\ last.call.curr_items <= last.call.curr_deletes)
        => last.kind \notin {"key", "none"}

----------------------------------------------------------------------------
(* The clamp of ZipfKey (SpecNext) *)

\* C24: for a Zipf draw z >= 1, ZipfKey.next returns curr_items - z whenever
\* curr_items - z >= curr_deletes, and returns curr_items - 1 in place of
\* curr_items - z only when curr_items - z < curr_deletes.
ZipfClampedOnlyBelowDeletes ==
    (ReturnedBy("ZipfKey") /\ last.call.z >= 1) =>
        LET number == last.call.curr_items - last.call.z
        IN /\ number >= last.call.curr_deletes => last.number = number
           /\ last.number # number =>
                /\ last.number = last.call.curr_items - 1
                /\ number < last.call.curr_deletes

----------------------------------------------------------------------------
(* The mode flag and the references of the join variants (SpecDoc) *)

\* The owner is the reference to the id seq_id % (num_docs // 4)
OwnerFromId(doc, g, seq_id) ==
    RefId(doc.owner, g) = seq_id % (g.num_docs \div 4)

\* The categories are the references to (seq_id + 11, 19, 23, 29) modulo
\* num_categories
CategoriesFromId(doc, g, seq_id) ==
    \A c \in 1..Len(doc.categories) :
        RefId(doc.categories[c], g) = (seq_id + RefOffsets[c]) % g.num_categories

\* The users of the replies are the references to (seq_id + idx + 537)
\* modulo num_docs
RepliesFromId(doc, g, seq_id) ==
    \A m \in 1..Len(doc.replies) :
        RefId(doc.replies[m].user, g) = (seq_id + (m - 1) + 537) % g.num_docs

\* The topics are the references to (seq_id + 11, 19, 23, 29) modulo num_docs
TopicsFromId(doc, g, seq_id) ==
    \A t \in 1..Len(doc.topics) :
        RefId(doc.topics[t], g) = (seq_id + RefOffsets[t]) % g.num_docs

\* C25: in Deterministic mode (prefix 'n1ql') the owner, the categories and
\* the replies of a JoinedDocument and the topics of an
\* ExtReverseLookupDocument are derived from the id of the key; in
\* Randomized mode none of them is: the mode flag switches all of them.
ModeSwitchesReferences ==
    LET i == Len(docs)
    IN /\ JoinedReturned(i) =>
            IF Deterministic(docgen)
            THEN /\ OwnerFromId(docs[i], docgen, dkey.number)
                 /\ CategoriesFromId(docs[i], docgen, dkey.number)
                 /\ RepliesFromId(docs[i], docgen, dkey.number)
            ELSE /\ ~OwnerFromId(docs[i], docgen, dkey.number)
                 /\ ~CategoriesFromId(docs[i], docgen, dkey.number)
                 /\ docs[i].replies # <<>>
                      => ~RepliesFromId(docs[i], docgen, dkey.number)
       /\ ExtReverseLookupReturned(i) =>
            IF Deterministic(docgen)
            THEN TopicsFromId(docs[i], docgen, dkey.number)
            ELSE ~TopicsFromId(docs[i], docgen, dkey.number)

----------------------------------------------------------------------------
(* The arrays of ArrayIndexingDocument (SpecDoc) *)

MaxBlocks == 2

\* The ids 0..D-1 of a population of D = MaxBlocks * ARRAY_CAP documents
ArrayPopulation == 0..(MaxBlocks * ARRAY_CAP - 1)

\* What next() puts in achievements1 and achievements2 for the key with
\* number id: it hands key.number + 1 to the builders
Achievements1Of(g, id, r) == BuildAchievements1(g, id + 1, r, 0).value

Achievements2Of(g, id, r) == BuildAchievements2(g, id + 1, r, 0).value

ArrayIndexingReturned(i) ==
    /\ docgen.variant = "ArrayIndexingDocument"
    /\ i \in 1..Len(docs)
    /\ ~IsRaised(docs[i])
    /\ dkey.number \in ArrayPopulation

\* C26: in Deterministic mode the achievements2 array of a document of the
\* population 0..D-1, D a multiple of 100, is the array of exactly 100 ids
\* of the population, which are consecutive, and its achievements1 array is
\* the array of no other id.
Achievements2SharedByHundred ==
    (ArrayIndexingReturned(Len(docs)) /\ Deterministic(docgen)) =>
        LET doc == docs[Len(docs)]
            sharing == {id \in ArrayPopulation :
                          Achievements2Of(docgen, id, rnd) = doc.achievements2}
        IN /\ Cardinality(sharing) = ARRAY_CAP
           /\ \A a \in sharing, b \in sharing :
                \A id \in ArrayPopulation : (a < id /\ id < b) => id \in sharing
           /\ \A id \in ArrayPopulation :
                id # dkey.number
                  => Achievements1Of(docgen, id, rnd) # doc.achievements1

\* The integers placed in an array
Integers(array) == {array[i] : i \in DOMAIN array}

\* The generator with the same num_docs and array_size in the other mode
OtherMode(g) ==
    [g EXCEPT !.prefix = IF IsRandom(g) THEN N1QL
                         ELSE CHOOSE p \in DocPrefixes : p # N1QL]

\* A document of an id of 0..num_docs-1 was returned; array_size >= 1, as
\* Randomized mode raises otherwise and places no integer
ArrayIndexingPlaced ==
    /\ ArrayIndexingReturned(Len(docs))
    /\ dkey.number \in 0..(docgen.num_docs - 1)
    /\ docgen.array_size >= 1

\* C27: with equal num_docs and array_size, no integer of achievements1
\* (achievements2) of a document of one mode is an integer of achievements1
\* (achievements2) of a document of the other mode, for the ids of
\* 0..num_docs-1 and every random shift; and in Randomized mode the
\* achievements1 arrays of two different ids share no integer.
ModesNeverCollide ==
    ArrayIndexingPlaced =>
        LET doc == docs[Len(docs)]
        IN \A id \in 0..(docgen.num_docs - 1), shift \in RandomSources :
             /\ Integers(Achievements1Of(OtherMode(docgen), id, shift))
                  \cap Integers(doc.achievements1) = {}
             /\ Integers(Achievements2Of(OtherMode(docgen), id, shift))
                  \cap Integers(doc.achievements2) = {}
             /\ (IsRandom(docgen) /\ id # dkey.number)
                  => Integers(Achievements1Of(docgen, id, shift))
                       \cap Integers(doc.achievements1) = {}

\* A Randomized array of the largest size, shifted by the largest shift
LargestShiftPlaced ==
    /\ ArrayIndexingPlaced
    /\ IsRandom(docgen)
    /\ docgen.array_size = MaxArray
    /\ dkey.number = 1
    /\ docs[Len(docs)].achievements1[1] =
         docgen.num_docs * MaxArray + 2 * 2 * MaxArray + MaxArray

----------------------------------------------------------------------------
(* FTSKey (SpecNext) *)

FTSKeyReturned == last.kind = "str" /\ last.call.gen = "FTSKey"

\* C28: the string FTSKey.next returns is the hexadecimal rendering of an
\* integer i with 0 <= i < mutate_items; mutate_items itself is never
\* rendered.
FTSKeyBelowMutateItems ==
    FTSKeyReturned =>
        \E i \in 0..(last.call.mutate_items - 1) : last.string = HexDigits(i)

----------------------------------------------------------------------------
(* Reservoir.update run by threads that share one Reservoir, a statement a *)
(* step, with no lock: SpecThreads                                         *)

\* A thread outside update
IdleThread ==
    [pc |-> "idle", operation |-> "get", value |-> 0, timestamp |-> 0,
     r |-> -1]

\* One owning thread, or two threads sharing the Reservoir
ThreadCounts == {1, 2}

MaxShared == 3

\* The measurements the threads report: a falsy one and a good one
SharedMeasurements == {0, 1}

ThreadFrame ==
    /\ UNCHANGED <<csv, offers, ended, slot, sampler>>
    /\ UNCHANGED keyVars
    /\ UNCHANGED <<keygen, docgen, rnd, dkey, docs, config, parsed>>

\* Thread t moves to statement pc
Goto(t, pc) == threads' = [threads EXCEPT ![t].pc = pc]

\* Thread t leaves update
Return(t) == threads' = [threads EXCEPT ![t] = IdleThread]

\* thread t calls update(operation, value)
ThreadCall(t) ==
    /\ threads[t].pc = "idle"
    /\ count < MaxShared
    /\ \E operation \in Operations, value \in SharedMeasurements :
         threads' = [threads EXCEPT ![t] = [IdleThread EXCEPT
                                              !.pc = "if not value",
                                              !.operation = operation,
                                              !.value = value]]
    /\ UNCHANGED <<capacity, values, count>>
    /\ ThreadFrame

\* if not value: return
ThreadIfNotValue(t) ==
    /\ threads[t].pc = "if not value"
    /\ IF IsFalsy(threads[t].value) THEN Return(t) ELSE Goto(t, "count")
    /\ UNCHANGED <<capacity, values, count>>
    /\ ThreadFrame

\* self.count += 1
ThreadCount(t) ==
    /\ threads[t].pc = "count"
    /\ count' = count + 1
    /\ Goto(t, "timestamp")
    /\ UNCHANGED <<capacity, values>>
    /\ ThreadFrame

\* timestamp = int(time.time() * 10 ** 9)
ThreadTimestamp(t) ==
    /\ threads[t].pc = "timestamp"
    /\ \E timestamp \in Timestamps :
         threads' = [threads EXCEPT ![t].pc = "if len",
                                    ![t].timestamp = timestamp]
    /\ UNCHANGED <<capacity, values, count>>
    /\ ThreadFrame

\* if len(self.values) < self.capacity:
ThreadIfLen(t) ==
    /\ threads[t].pc = "if len"
    /\ IF UnderCapacity(values, capacity)
       THEN Goto(t, "append")
       ELSE Goto(t, "random")
    /\ UNCHANGED <<capacity, values, count>>
    /\ ThreadFrame

\* self.values.append((operation, timestamp, value))
ThreadAppend(t) ==
    /\ threads[t].pc = "append"
    /\ values' = AddSample(values, <<threads[t].operation,
                                     threads[t].timestamp, threads[t].value>>)
    /\ Return(t)
    /\ UNCHANGED <<capacity, count>>
    /\ ThreadFrame

\* r = int(self.count * random.random())
ThreadRandom(t) ==
    /\ threads[t].pc = "random"
    /\ \E r \in RandomSlots(count) :
         threads' = [threads EXCEPT ![t].pc = "if r", ![t].r = r]
    /\ UNCHANGED <<capacity, values, count>>
    /\ ThreadFrame

\* if r < self.capacity:
ThreadIfR(t) ==
    /\ threads[t].pc = "if r"
    /\ IF Replaces(threads[t].r, capacity)
       THEN Goto(t, "store")
       ELSE Return(t)
    /\ UNCHANGED <<capacity, values, count>>
    /\ ThreadFrame

\* self.values[r] = (operation, timestamp, value)
ThreadStore(t) ==
    /\ threads[t].pc = "store"
    /\ values' = SetSlot(values, threads[t].r,
                         <<threads[t].operation, threads[t].timestamp,
                           threads[t].value>>)
    /\ Return(t)
    /\ UNCHANGED <<capacity, count>>
    /\ ThreadFrame

InitThreads ==
    /\ InitSamplerIdle
    /\ \E n \in ThreadCounts : threads = [t \in 1..n |-> IdleThread]
    /\ \E num_workers \in NumWorkers : capacity = ReservoirCapacity(num_workers)
    /\ values = <<>>
    /\ count = 0
    /\ csv = <<>>
    /\ offers = <<>>
    /\ ended = "none"
    /\ slot = -1
    /\ ws = [items |-> 0, workers |-> 1, working_set |-> 0]
    /\ phase = "threads"
    /\ sid = 0
    /\ gen = [cursor |-> 0, number |-> 0]
    /\ seqKeys = NoKeys(ws)
    /\ unordKeys = NoKeys(ws)
    /\ hotKeys = NoKeys(ws)
    /\ wsk = [kind |-> "none"]
    /\ last = NoKey
    /\ keygen = NoKeyGen
    /\ InitDocIdle

NextThreads ==
    \E t \in DOMAIN threads :
        \/ ThreadCall(t)
        \/ ThreadIfNotValue(t)
        \/ ThreadCount(t)
        \/ ThreadTimestamp(t)
        \/ ThreadIfLen(t)
        \/ ThreadAppend(t)
        \/ ThreadRandom(t)
        \/ ThreadIfR(t)
        \/ ThreadStore(t)

SpecThreads == InitThreads /\ [][NextThreads]_vars

\* C29: a Reservoir holds more values than its capacity only when a second
\* thread shares it: with a single owning thread len(values) never exceeds
\* capacity, and with two threads it exceeds it by at most the one append
\* of the thread that passed the capacity test before the other appended.
OverCapacityOnlyWhenShared ==
    /\ Len(threads) = 1 => Len(values) <= capacity
    /\ Len(values) <= capacity + Len(threads) - 1

\* Two threads left more values than capacity in the Reservoir
SharedOverCapacity ==
    /\ Len(threads) = 2
    /\ Len(values) > capacity
    /\ \A t \in DOMAIN threads : threads[t].pc = "idle"

----------------------------------------------------------------------------
(* DurabilityLatency of cbagent/collectors/spring_latency.py, a statement  *)
(* a step: SpecSampler                                                     *)

MaxPools == 2
MaxClients == 3

METRICS == <<"latency_replicate_to", "latency_persist_to">>

\* A pool of clients: those in it (free) and those taken out of it (out)
InitPool(size) == [free |-> size, out |-> 0]

\* pool.get_client() gives a client of the pool when one is left in it
PoolHasClient(pool) == pool.free > 0

GetClient(pool) == [free |-> pool.free - 1, out |-> pool.out + 1]

SamplerFrame ==
    /\ UNCHANGED threads
    /\ UNCHANGED keyVars
    /\ UNCHANGED resVars
    /\ UNCHANGED <<keygen, docgen, rnd, dkey, docs, config, parsed>>

\* for bucket, pool in self.pools: for metric in self.METRICS: under
\* while True, the next turn of the loops
NextMetric(s) ==
    IF s.metric < Len(METRICS)
    THEN [s EXCEPT !.pc = "try", !.metric = @ + 1]
    ELSE [s EXCEPT !.pc = "try", !.metric = 1,
                   !.bucket = (s.bucket % Len(s.pools)) + 1]

\* try: stats, sleep_time = self.endure(pool, metric): endure is entered
SampleTry ==
    /\ sampler.pc = "try"
    /\ sampler' = [sampler EXCEPT !.pc = "get_client"]
    /\ SamplerFrame

\* client = pool.get_client()
EndureGetClient ==
    /\ sampler.pc = "get_client"
    /\ LET pool == sampler.pools[sampler.bucket]
       IN IF PoolHasClient(pool)
          THEN sampler' = [sampler EXCEPT !.pc = "next", !.client = TRUE,
                                          !.pools[sampler.bucket] =
                                              GetClient(pool)]
          ELSE sampler' = [sampler EXCEPT !.pc = "except"]
    /\ SamplerFrame

\* key = uhex(); doc = self.new_docs.next(key): key is a str, and
\* Document.next and NestedDocument.next read key.string, so the call
\* raises AttributeError. The exception leaves endure, and with it the
\* local client, before upsert, endure, delete and release_client, which
\* are never reached.
EndureNext ==
    /\ sampler.pc = "next"
    /\ sampler' = [sampler EXCEPT !.pc = "except", !.client = FALSE]
    /\ SamplerFrame

\* except Exception as e: logger.warn(e)
SampleExcept ==
    /\ sampler.pc = "except"
    /\ sampler' = NextMetric(sampler)
    /\ SamplerFrame

InitSampler ==
    /\ InitThreadsIdle
    /\ \E n \in 1..MaxPools, size \in 1..MaxClients :
         sampler = [pc |-> "try", bucket |-> 1, metric |-> 1,
                    pools |-> [b \in 1..n |-> InitPool(size)],
                    client |-> FALSE]
    /\ ws = [items |-> 0, workers |-> 1, working_set |-> 0]
    /\ phase = "sampler"
    /\ sid = 0
    /\ gen = [cursor |-> 0, number |-> 0]
    /\ seqKeys = NoKeys(ws)
    /\ unordKeys = NoKeys(ws)
    /\ hotKeys = NoKeys(ws)
    /\ wsk = [kind |-> "none"]
    /\ last = NoKey
    /\ keygen = NoKeyGen
    /\ InitReservoirIdle
    /\ InitDocIdle

NextSampler ==
    \/ SampleTry
    \/ EndureGetClient
    \/ EndureNext
    \/ SampleExcept

SpecSampler == InitSampler /\ [][NextSampler]_vars

\* C30: when the sampling loop is at the try of a metric, every client that
\* endure took from a pool has been given back: no client is held outside
\* any pool, whether the previous endure returned or raised.
ClientsBackBeforeNextMetric ==
    sampler.pc = "try" =>
        \A b \in DOMAIN sampler.pools : sampler.pools[b].out = 0

====
